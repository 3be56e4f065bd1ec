------------------------------- MODULE MCJudgement -------------------------------
(* Judgement on bodies of up to three words with all their sentence ends, and some longer ones. *)
EXTENDS Judgement

CONSTANTS a, b, x

Upto(n, S) == UNION {[1 .. k -> S] : k \in 0 .. n}

MCTexts     == Upto(4, {a, b, x})
MCPast      == {<<a, b>>, <<b, b>>, <<a, b, b>>, <<b, a, b>>, <<a, b, b, a>>}
MCSent      == UNION {[1 .. n -> MCPast] : n \in 0 .. 2}
                 \union {<<p, <<b, b>>, <<b, b>>>> : p \in MCPast}
MCBodies    ==
  UNION {[words : {w}, ends : SUBSET (0 .. Len(w))] : w \in Upto(3, {a, b})}
    \union [words : {<<a, x>>, <<a, a, a, a>>, <<a, b, b, a>>}, ends : SUBSET {1, 2}]
MCTitles    == {{}, {b}}
MCRawScores == {-20000, -1, 4994, 4996, 6495, 20000, NaN}
MCThird     == <<1, 3>>

================================================================================
