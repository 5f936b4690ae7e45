-------------------------- MODULE RequestWorkflow --------------------------
(***************************************************************************)
(* The statuses of a quote request and the transitions declared between    *)
(* them, shared by the services that move a request.                       *)
(***************************************************************************)

QuoteRequestStatuses ==
  {"draft", "submitted", "under_review", "contacted", "visit_scheduled",
   "estimate_in_preparation", "estimate_sent", "accepted", "rejected",
   "cancelled", "archived"}

QuoteRequestTransitions ==
  [draft |-> {"submitted", "cancelled"},
   submitted |-> {"under_review", "contacted", "cancelled", "archived"},
   under_review |-> {"contacted", "visit_scheduled", "estimate_in_preparation",
                     "cancelled", "archived"},
   contacted |-> {"under_review", "visit_scheduled", "estimate_in_preparation",
                  "cancelled", "archived"},
   visit_scheduled |-> {"under_review", "estimate_in_preparation", "cancelled", "archived"},
   estimate_in_preparation |-> {"estimate_sent", "cancelled", "archived"},
   estimate_sent |-> {"accepted", "rejected", "cancelled", "archived"},
   accepted |-> {"archived"},
   rejected |-> {"under_review", "archived"},
   cancelled |-> {"under_review", "archived"},
   archived |-> {}]

CanTransition(from, to) == to \in QuoteRequestTransitions[from]

\* Statuses the client is told about when the office moves a request to them.
ClientVisible ==
  {"contacted", "visit_scheduled", "estimate_sent", "accepted", "rejected", "cancelled"}
=============================================================================
