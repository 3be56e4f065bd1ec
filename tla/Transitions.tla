------------------------------ MODULE Transitions ------------------------------
(***************************************************************************)
(* The status sets of the domain (domain/enums.py) and the transition      *)
(* tables that domain/policies/transitions.py calls "the only place        *)
(* transitions are defined".  An entity method consults its table and      *)
(* raises InvalidStateTransition; a repository's update_status writes a    *)
(* status without consulting any.                                          *)
(***************************************************************************)

VacancyStatus ==
  {"discovered", "parsed", "duplicate", "qualified", "rejected", "closed"}

LeadStatus ==
  {"created", "qualified", "rejected", "outreach_drafted",
   "outreach_approved", "outreach_sent", "closed"}

OutreachStatus ==
  {"drafted", "approved", "sent", "replied", "followup_scheduled",
   "rejected", "closed", "failed"}

ConversationStatus ==
  {"open", "waiting_reply", "replied", "followup_scheduled", "closed"}

IdempotencyState == {"pending", "completed", "failed"}

\* Of the four tables the use cases' paths ask two: nothing calls Vacancy.transition, nor
\* what calls Conversation.transition.
VacancyTable ==
  [discovered |-> {"parsed", "duplicate", "rejected"},
   parsed     |-> {"qualified", "duplicate", "rejected"},
   qualified  |-> {"closed", "rejected"},
   duplicate  |-> {},
   rejected   |-> {"closed"},
   closed     |-> {}]

\* Mutant: an approved lead cannot be marked sent.
LeadTableUnsendable ==
  [created           |-> {"qualified", "rejected"},
   qualified         |-> {"outreach_drafted", "outreach_approved", "rejected"},
   outreach_drafted  |-> {"outreach_approved", "outreach_sent", "rejected"},
   outreach_approved |-> {"rejected"},
   outreach_sent     |-> {"closed"},
   rejected          |-> {"closed"},
   closed            |-> {}]

LeadTable ==
  [created           |-> {"qualified", "rejected"},
   qualified         |-> {"outreach_drafted", "outreach_approved", "rejected"},
   outreach_drafted  |-> {"outreach_approved", "outreach_sent", "rejected"},
   outreach_approved |-> {"outreach_sent", "rejected"},
   outreach_sent     |-> {"closed"},
   rejected          |-> {"closed"},
   closed            |-> {}]

OutreachTable ==
  [drafted            |-> {"approved", "rejected", "failed"},
   approved           |-> {"sent", "failed"},
   sent               |-> {"replied", "followup_scheduled", "closed", "failed"},
   replied            |-> {"followup_scheduled", "closed"},
   followup_scheduled |-> {"sent", "closed", "failed"},
   rejected           |-> {"closed"},
   failed             |-> {"closed", "drafted"},
   closed             |-> {}]

ConversationTable ==
  [open               |-> {"waiting_reply", "closed"},
   waiting_reply      |-> {"replied", "followup_scheduled", "closed"},
   replied            |-> {"followup_scheduled", "closed"},
   followup_scheduled |-> {"waiting_reply", "replied", "closed"},
   closed             |-> {}]

CanMoveLead(from, to)     == to \in LeadTable[from]
CanMoveOutreach(from, to) == to \in OutreachTable[from]

================================================================================
