--------------------------- MODULE DocumentAccess ---------------------------
(* Who may do what with a document: the pure verdict of authorize.ts, and    *)
(* the filter of the list a client sees.                                     *)

DocumentStatuses == {"generated", "sent", "archived", "cancelled"}
DocumentVisibilities == {"private_admin", "assigned_staff", "client", "client_and_staff"}
DocumentActions == {"view", "download", "generate", "archive"}
UserRoles == {"client", "staff", "admin"}

ClientVisibilities == {"client", "client_and_staff"}
StaffVisibilities == {"assigned_staff", "client_and_staff"}

\* Mutation: every client has access to what some client may see.
ClientMayAny(subject, target, action) ==
  /\ action \in {"view", "download"}
  /\ target.visibility \in ClientVisibilities
  /\ ~target.archived /\ target.status # "archived"

AuthorizeClient(subject, target, action) ==
  /\ action \in {"view", "download"}
  /\ target.owner = subject.id
  /\ target.visibility \in ClientVisibilities
  /\ ~target.archived /\ target.status # "archived"

AuthorizeStaff(subject, target, action) ==
  /\ action # "archive"
  /\ target.visibility \in StaffVisibilities
  /\ target.assigned = subject.id

AuthorizeDocumentAccess(subject, target, action) ==
  /\ ~target.deleted
  /\ target.status = "cancelled" => action = "view"
  /\ \/ subject.role = "admin"
     \/ subject.role = "staff" /\ AuthorizeStaff(subject, target, action)
     \/ subject.role = "client" /\ AuthorizeClient(subject, target, action)

\* listDocumentsForOwner, apart from the version.
ListedForOwner(user, target) ==
  /\ target.owner = user
  /\ ~target.deleted /\ ~target.archived
  /\ target.visibility \in ClientVisibilities
  /\ target.status \in {"generated", "sent"}
=============================================================================
