------------------------------- MODULE ModelCalls -------------------------------
(***************************************************************************)
(* What OllamaClient makes of the replies of the model's server: which     *)
(* replies are asked for again, which end the call at once, and what the   *)
(* fields of an answer become when they are not what the prompt asked for. *)
(*                                                                         *)
(* A text is known by what json.loads says of its three readings: of the   *)
(* whole, of the fenced block in it and of what its outer braces enclose.  *)
(***************************************************************************)
EXTENDS Integers

CONSTANTS
  Attempts,  \* times a reply is asked for, 3 in the code
  One,       \* the score 1.0 in units of 1/10000
  NaN        \* the number that is none, which json.loads reads

ASSUME CallsAssumption ==
  /\ Attempts \in Nat \ {0}
  /\ One \in Nat \ {0}
  /\ NaN \notin Int

Reading == {"object", "other", "invalid"}

\* What braces enclose is an object or no JSON.
Text == [empty : BOOLEAN, whole : Reading, fenced : Reading, braced : {"object", "invalid"}]

\* Whole, fence, braces: the first that is JSON decides, and it has to be an object.
Readable(t) ==
  /\ ~ t.empty
  /\ \/ t.whole = "object"
     \/ t.whole = "invalid" /\ t.fenced = "object"
     \/ t.whole = "invalid" /\ t.fenced = "invalid" /\ t.braced = "object"

\* An HTTP error or a timeout, an object without message and response, no JSON at all,
\* JSON of another form, or a text.
Reply ==
  [kind : {"http_error", "shapeless", "garbled", "foreign"}] \union [kind : {"text"}, text : Text]

\* LLMContractError and httpx.HTTPError are caught; every other error leaves the call.
AskedAgain(r) ==
  \/ r.kind \in {"http_error", "shapeless"}
  \/ r.kind = "text" /\ ~ Readable(r.text)

--------------------------------------------------------------------------------
\* The fields of an answer.

\* "words" is any text that is not empty, "false" among them.
Truth == {"yes", "no", "words"}

Bool(v) == v # "no"

\* min(1.0, nan) is 1.0 in Python.
Clamp(x) == IF x = NaN \/ x > One THEN One ELSE IF x < 0 THEN 0 ELSE x

================================================================================
