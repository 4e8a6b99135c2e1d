------------------------------ MODULE StaffInv ------------------------------
(***************************************************************************)
(* The inductive invariant behind the safety properties of module          *)
(* StaffKiosk.  The properties say nothing of what the handlers, the page  *)
(* and the Pi still hold; the invariant says it for each of them.          *)
(***************************************************************************)
EXTENDS StaffKiosk

\* An offboarding of e has been started; such a session is never deleted.
Offboarding(e) ==
  \E s \in Sessions :
    session[s].type = "EMPLOYEE_OFFBOARDING" /\ session[s].employee = e

\* e's template is on the Pi, or an offboarding has begun to remove it.
Held(e) == template[e] \/ Offboarding(e)

\* A face of e is being registered, or the page may begin to.
Enrolling(e) ==
  \/ scan = e
  \/ kiosk.mode \in {"verified", "scanning"} /\ Subject = e

Absent(e) == ~ template[e] /\ ~ Enrolling(e)

SessionFacts(s) ==
  /\ session[s].status = "NONE" => session[s].type = "none"
  /\ session[s].type = "none" =>
       session[s].status = "NONE" /\ session[s].employee = Nil
  /\ session[s].type \in SessionTypes \ {"RESTOCK_AUTH"} =>
       session[s].employee \in Employees
  /\ session[s].status = "DELETED" =>
       /\ session[s].type \in {"FACE_REGISTRATION", "EMPLOYEE_DRAFT_DELETE"}
       /\ employee[session[s].employee].row = "deleted"

SessionInv == \A s \in Sessions : SessionFacts(s)

OneActive ==
  \A s, o \in Sessions :
    session[s].status = "ACTIVE" /\ session[o].status = "ACTIVE" => s = o

\* Of a record that is not there no workflow is left; a template, or a scan
\* that may make one, leaves a trace in the backend.
EmployeeFacts(e) ==
  /\ employee[e].offboarded =>
       /\ employee[e].row = "kept"
       /\ ~ employee[e].isActive
       /\ ~ employee[e].faceRegistered
  /\ employee[e].row # "kept" =>
       ~ employee[e].faceRegistered /\ SessionsOf(e) = {}
  /\ employee[e].row = "none" =>
       \A s \in Sessions : session[s].employee # e
  /\ employee[e].faceRegistered => Held(e)
  /\ template[e] \/ scan = e =>
       employee[e].faceRegistered \/ SessionsOf(e) # {}

EmployeeInv == \A e \in Employees : EmployeeFacts(e)

\* The page shows the workflow of its session's type, and knows of the scan
\* it waits for.
KioskInv ==
  /\ kiosk.mode = "customer" <=> kiosk.session = Nil
  /\ kiosk.mode # "customer" => session[kiosk.session].type =
       CASE kiosk.mode = "draftDelete" -> "EMPLOYEE_DRAFT_DELETE"
         [] kiosk.mode = "offboarding" -> "EMPLOYEE_OFFBOARDING"
         [] OTHER                      -> "FACE_REGISTRATION"
  /\ kiosk.mode \in {"verified", "scanning"} =>
       session[kiosk.session].status # "DELETED"
  /\ kiosk.mode = "scanning" => scan = Subject
  /\ kiosk.mode = "sync" => Held(Subject)

\* What a handler may rely on when it goes on with its session.  While the
\* report that no template exists can still delete the record, none is made.
AwaitInv(r) ==
  LET q == request[r]
      s == q.session
  IN
  /\ q.at = "write" => q.status \in Ended
  /\ q.at \in {"bind", "commit"} =>
       /\ session[s].type = "RESTOCK_AUTH"
       /\ q.employee \in Employees
       /\ <<s, q.employee>> \in matched
  /\ q.at \in {"commit", "register"} => session[s].employee = q.employee
  /\ q.at = "register" =>
       session[s].type = "FACE_REGISTRATION" /\ Held(q.employee)
  /\ q.at = "offboard" => session[s].type = "EMPLOYEE_OFFBOARDING"
  /\ q.at = "finalize" =>
       /\ session[s].type = "EMPLOYEE_DRAFT_DELETE"
       /\ q.found => Held(session[s].employee)
       /\ ~ q.found /\ session[s].status = "ACTIVE" =>
            Absent(session[s].employee)

HandlerFacts(r) ==
  /\ request[r].at = "idle" => request[r] = Idle
  /\ request[r].at = "create" => request[r].employee \in Employees
  /\ request[r].at \notin {"idle", "create"} =>
       /\ request[r].session \in Sessions
       /\ session[request[r].session].status # "NONE"
       /\ AwaitInv(r)

RequestInv == \A r \in Requests : HandlerFacts(r)

\* An employee is bound to a restock session only after the Pi's statement,
\* and only the bound employee is in its log.
BoundWasMatched ==
  \A s \in Sessions, e \in Employees :
    session[s].type = "RESTOCK_AUTH" /\ session[s].employee = e =>
      <<s, e>> \in matched

LoggedIsBound ==
  \A s \in Sessions, e \in Employees :
    restockLog[s][e] > 0 =>
      session[s].type = "RESTOCK_AUTH" /\ session[s].employee = e

IInv ==
  /\ TypeOK
  /\ SessionInv
  /\ OneActive
  /\ EmployeeInv
  /\ KioskInv
  /\ RequestInv
  /\ BoundWasMatched
  /\ LoggedIsBound
=============================================================================
