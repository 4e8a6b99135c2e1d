---------------------------- MODULE StaffSession ----------------------------
(***************************************************************************)
(* The backend's staff workflows: the temporary sessions that the Staff    *)
(* and Admin portals open for the one kiosk, the restock commit, the       *)
(* registration of a face, and the life of an employee record.             *)
(* (kiosk-session, restock, employee-management, employee-lifecycle and    *)
(* employee-auth services; StaffKiosk composes them with the kiosk.)       *)
(*                                                                         *)
(* A transaction of isolation level Serializable is one step: PostgreSQL   *)
(* aborts it when another one interferes, which is a 409 and no step.  The *)
(* others run at Read Committed: they read a row in one step and write it  *)
(* by its id in a later one, whatever it has become.  What a handler keeps *)
(* in between is in request[r].  Any handler may end early (Abort): its    *)
(* transaction is rolled back.                                             *)
(*                                                                         *)
(* Time is the flag elapsed of a session.  A handler reads the clock in    *)
(* the step in which it reads the row.  Names, codes and the slots of a    *)
(* restock (module Payment) are left out.                                  *)
(***************************************************************************)
EXTENDS Naturals

CONSTANTS
  Employees,  \* ids of the Employee table
  Sessions,   \* ids of the KioskSession table
  Requests,   \* handlers that can be in progress at the same time
  Veterans,   \* the employees registered before there were sessions
  Nil         \* the absent employee or session

ASSUME NilIsNoId == Nil \notin Employees /\ Nil \notin Sessions
ASSUME VeteransAreEmployees == Veterans \subseteq Employees

VARIABLES
  employee,    \* the rows of the Employee table
  session,     \* the rows of the KioskSession table
  restockLog,  \* how many RestockLog rows name an employee, by session
  request      \* the handlers in progress

backendVars == <<employee, session, restockLog, request>>

-----------------------------------------------------------------------------
(* Types *)

\* row: not inserted yet, there, or deleted.
Employee ==
  [ row            : {"none", "kept", "deleted"},
    isActive       : BOOLEAN,
    faceRegistered : BOOLEAN,
    offboarded     : BOOLEAN ]        \* offboardedAt is not null

SessionTypes == {"RESTOCK_AUTH", "FACE_REGISTRATION",
                 "EMPLOYEE_DRAFT_DELETE", "EMPLOYEE_OFFBOARDING"}

Ended == {"COMPLETED", "EXPIRED", "CANCELLED"}

\* status is "NONE" before the row is inserted and "DELETED" after it is
\* deleted; elapsed: expiresAt has passed.
Session ==
  [ type     : SessionTypes \union {"none"},
    status   : Ended \union {"NONE", "ACTIVE", "DELETED"},
    employee : Employees \union {Nil},
    elapsed  : BOOLEAN ]

\* at: what the handler does when it goes on; status: what it writes into
\* its session; found: what the kiosk has reported to it.
Request ==
  [ at       : {"idle", "create", "write", "bind", "commit", "register",
                "finalize", "offboard"},
    session  : Sessions \union {Nil},
    employee : Employees \union {Nil},
    status   : Ended \union {"none"},
    found    : BOOLEAN ]

Idle == [at |-> "idle", session |-> Nil, employee |-> Nil, status |-> "none",
         found |-> FALSE]

BackendTypeOK ==
  /\ employee \in [Employees -> Employee]
  /\ session \in [Sessions -> Session]
  /\ restockLog \in [Sessions -> [Employees -> Nat]]
  /\ request \in [Requests -> Request]

BackendInit ==
  /\ employee = [e \in Employees |->
       IF e \in Veterans
       THEN [row |-> "kept", isActive |-> TRUE, faceRegistered |-> TRUE,
             offboarded |-> FALSE]
       ELSE [row |-> "none", isActive |-> FALSE, faceRegistered |-> FALSE,
             offboarded |-> FALSE]]
  /\ session = [s \in Sessions |-> [type |-> "none", status |-> "NONE",
                  employee |-> Nil, elapsed |-> FALSE]]
  /\ restockLog = [s \in Sessions |-> [e \in Employees |-> 0]]
  /\ request = [r \in Requests |-> Idle]

-----------------------------------------------------------------------------
(* What the handlers ask of the rows *)

Kept(e) == employee[e].row = "kept"

\* assertEmployeeNotOffboarded
Current(e) == Kept(e) /\ ~ employee[e].offboarded

Live(s) == session[s].status = "ACTIVE" /\ ~ session[s].elapsed

Overdue(s) == session[s].status = "ACTIVE" /\ session[s].elapsed

LiveFor(s, type) == Live(s) /\ session[s].type = type

SessionsOf(e) ==
  {s \in Sessions : session[s].employee = e /\ session[s].status # "DELETED"}

\* e has an unexpired active session of one of the types.
InWorkflow(e, types) ==
  \E s \in SessionsOf(e) : Live(s) /\ session[s].type \in types

HasRestocked(e) == \E s \in Sessions : restockLog[s][e] > 0

\* draftDeleteIneligibility finds nothing; own is the verification session.
DeletableDraft(e, own) ==
  /\ ~ employee[e].faceRegistered
  /\ ~ HasRestocked(e)
  /\ \A s \in SessionsOf(e) \ {own} :
       /\ session[s].type \in {"FACE_REGISTRATION", "EMPLOYEE_DRAFT_DELETE"}
       /\ session[s].status \in {"CANCELLED", "EXPIRED"}

MayBind(s, e) ==
  LiveFor(s, "RESTOCK_AUTH") /\ session[s].employee \in {Nil, e}

\* Faulty: updates the employee by id, as it was read.
MayRegister_unchecked(e) == Kept(e)

MayRegister(e) == Current(e) /\ employee[e].isActive

-----------------------------------------------------------------------------
(* Handlers *)

Start(r, at, s, e, status, found) ==
  /\ request[r] = Idle
  /\ request' = [request EXCEPT ![r] =
       [at |-> at, session |-> s, employee |-> e, status |-> status,
        found |-> found]]

Finish(r) == request' = [request EXCEPT ![r] = Idle]

Abort(r) ==
  /\ request[r] # Idle
  /\ Finish(r)
  /\ UNCHANGED <<employee, session, restockLog>>

End(s, status) == [session EXCEPT ![s].status = status]

(* Sessions *)

\* The table after expireElapsedSessions.
AfterExpiry ==
  [s \in Sessions |->
     IF Overdue(s) THEN [session[s] EXCEPT !.status = "EXPIRED"] ELSE session[s]]

GetCurrent ==
  /\ session' = AfterExpiry
  /\ UNCHANGED <<employee, restockLog, request>>

\* The unique index allows one ACTIVE row.
Create(s, type, e) ==
  /\ session[s].status = "NONE"
  /\ \A o \in Sessions : ~ Live(o)
  /\ session' = [AfterExpiry EXCEPT ![s] =
       [type |-> type, status |-> "ACTIVE", employee |-> e, elapsed |-> FALSE]]

CreateRestockSession(s) ==
  /\ Create(s, "RESTOCK_AUTH", Nil)
  /\ UNCHANGED <<employee, restockLog, request>>

\* The employee is looked up before the transaction that inserts the session.
FindEmployeeToRegister(r, e) ==
  /\ Current(e)
  /\ employee[e].isActive
  /\ Start(r, "create", Nil, e, "none", FALSE)
  /\ UNCHANGED <<employee, session, restockLog>>

\* The foreign key wants the employee's row, nothing else.
CreateFaceRegistrationSession(r, s) ==
  /\ request[r].at = "create"
  /\ Kept(request[r].employee)
  /\ Create(s, "FACE_REGISTRATION", request[r].employee)
  /\ Finish(r)
  /\ UNCHANGED <<employee, restockLog>>

\* complete and cancel, of a session of any type; a read by findById expires
\* an elapsed session in the same way.
Transition(r, s, next) ==
  /\ session[s].status = "ACTIVE"
  /\ IF Overdue(s) THEN Start(r, "write", s, Nil, "EXPIRED", FALSE)
                   ELSE Start(r, "write", s, Nil, next, FALSE)
  /\ UNCHANGED <<employee, session, restockLog>>

\* The row is written by its id.
WriteStatus(r) ==
  /\ request[r].at = "write"
  /\ session[request[r].session].status # "DELETED"
  /\ session' = End(request[r].session, request[r].status)
  /\ Finish(r)
  /\ UNCHANGED <<employee, restockLog>>

(* The restock workflow *)

\* faceAuthenticateEmployeeForSession: the session is live and the employee,
\* whose face the Pi has certified for this session, is active.
AuthenticateEmployee(r, s, e) ==
  /\ LiveFor(s, "RESTOCK_AUTH")
  /\ Kept(e)
  /\ employee[e].isActive
  /\ Start(r, "bind", s, e, "none", FALSE)
  /\ UNCHANGED <<employee, session, restockLog>>

BindRestockEmployee(r) ==
  /\ request[r].at = "bind"
  /\ LET s == request[r].session
         e == request[r].employee
     IN /\ Kept(e)
        /\ MayBind(s, e)
        /\ session' = [session EXCEPT ![s].employee = e]
  /\ Finish(r)
  /\ UNCHANGED <<employee, restockLog>>

ReadRestockSession(r, s) ==
  LET e == session[s].employee IN
  /\ LiveFor(s, "RESTOCK_AUTH")
  /\ e # Nil
  /\ employee[e].isActive
  /\ Start(r, "commit", s, e, "none", FALSE)
  /\ UNCHANGED <<employee, session, restockLog>>

\* The log is written and the session completed by its id.
CommitRestock(r) ==
  LET s == request[r].session
      e == request[r].employee
  IN
  /\ request[r].at = "commit"
  /\ restockLog' = [restockLog EXCEPT ![s][e] = @ + 1]
  /\ session' = End(s, "COMPLETED")
  /\ Finish(r)
  /\ UNCHANGED employee

(* The registration of a face *)

ReadRegistrationSession(r, s) ==
  /\ LiveFor(s, "FACE_REGISTRATION")
  /\ Start(r, "register", s, session[s].employee, "none", FALSE)
  /\ UNCHANGED <<employee, session, restockLog>>

CompleteFaceRegistration(r) ==
  LET e == request[r].employee IN
  /\ request[r].at = "register"
  /\ MayRegister(e)
  /\ employee' = [employee EXCEPT ![e].faceRegistered = TRUE]
  /\ session' = End(request[r].session, "COMPLETED")
  /\ Finish(r)
  /\ UNCHANGED restockLog

(* The life of an employee *)

CreateEmployee(e) ==
  /\ employee[e].row = "none"
  /\ employee' = [employee EXCEPT ![e] = [row |-> "kept", isActive |-> TRUE,
                    faceRegistered |-> FALSE, offboarded |-> FALSE]]
  /\ UNCHANGED <<session, restockLog, request>>

Deactivate(e) ==
  /\ Current(e)
  /\ employee[e].isActive
  /\ ~ InWorkflow(e, {"FACE_REGISTRATION"})
  /\ employee' = [employee EXCEPT ![e].isActive = FALSE]
  /\ UNCHANGED <<session, restockLog, request>>

Reactivate(e) ==
  /\ Current(e)
  /\ ~ employee[e].isActive
  /\ ~ InWorkflow(e, {"EMPLOYEE_DRAFT_DELETE", "EMPLOYEE_OFFBOARDING"})
  /\ employee' = [employee EXCEPT ![e].isActive = TRUE]
  /\ UNCHANGED <<session, restockLog, request>>

DeleteEmployee(e) ==
  /\ Current(e)
  /\ ~ employee[e].faceRegistered
  /\ ~ HasRestocked(e)
  /\ SessionsOf(e) = {}
  /\ employee' = [employee EXCEPT ![e].row = "deleted"]
  /\ UNCHANGED <<session, restockLog, request>>

\* An elapsed session of e counts as expired: the transaction expires it first.
StartDraftDelete(s, e) ==
  /\ Current(e)
  /\ ~ employee[e].faceRegistered
  /\ ~ HasRestocked(e)
  /\ \A o \in SessionsOf(e) :
       /\ session[o].type \in {"FACE_REGISTRATION", "EMPLOYEE_DRAFT_DELETE"}
       /\ session[o].status \in {"CANCELLED", "EXPIRED"} \/ Overdue(o)
  /\ Create(s, "EMPLOYEE_DRAFT_DELETE", e)
  /\ UNCHANGED <<employee, restockLog, request>>

StartOffboarding(s, e) ==
  /\ Current(e)
  /\ Create(s, "EMPLOYEE_OFFBOARDING", e)
  /\ employee' = [employee EXCEPT ![e].isActive = FALSE]
  /\ UNCHANGED <<restockLog, request>>

CompleteOffboarding(r) ==
  LET s == request[r].session
      e == session[s].employee
  IN
  /\ request[r].at = "offboard"
  /\ LiveFor(s, "EMPLOYEE_OFFBOARDING")
  /\ employee' = [employee EXCEPT ![e] =
       [row |-> "kept", isActive |-> FALSE, faceRegistered |-> FALSE,
        offboarded |-> TRUE]]
  /\ session' = End(s, "COMPLETED")
  /\ Finish(r)
  /\ UNCHANGED restockLog

\* The kiosk has reported whether the Pi holds a template: the draft is
\* preserved, refused, or deleted together with its sessions.
FinalizeDraftDelete(r) ==
  LET s == request[r].session
      e == session[s].employee
  IN
  /\ request[r].at = "finalize"
  /\ LiveFor(s, "EMPLOYEE_DRAFT_DELETE")
  /\ Current(e)
  /\ \/ /\ request[r].found
        /\ employee' = [employee EXCEPT ![e].isActive = FALSE,
                                        ![e].faceRegistered = TRUE]
        /\ session' = End(s, "COMPLETED")
     \/ /\ ~ request[r].found
        /\ ~ DeletableDraft(e, s)
        /\ session' = End(s, "CANCELLED")
        /\ UNCHANGED employee
     \/ /\ ~ request[r].found
        /\ DeletableDraft(e, s)
        /\ session' = [o \in Sessions |->
             IF o \in SessionsOf(e) THEN [session[o] EXCEPT !.status = "DELETED"]
             ELSE session[o]]
        /\ employee' = [employee EXCEPT ![e].row = "deleted"]
  /\ Finish(r)
  /\ UNCHANGED restockLog

-----------------------------------------------------------------------------

Elapse(s) ==
  /\ Live(s)
  /\ session' = [session EXCEPT ![s].elapsed = TRUE]
  /\ UNCHANGED <<employee, restockLog, request>>

\* What the portals ask for.
PortalStep ==
  \/ GetCurrent
  \/ \E s \in Sessions : CreateRestockSession(s)
  \/ \E r \in Requests, e \in Employees : FindEmployeeToRegister(r, e)
  \/ \E r \in Requests, s \in Sessions :
       \/ \E next \in {"COMPLETED", "CANCELLED"} : Transition(r, s, next)
       \/ ReadRestockSession(r, s)
  \/ \E e \in Employees :
       \/ CreateEmployee(e)
       \/ Deactivate(e)
       \/ Reactivate(e)
       \/ DeleteEmployee(e)
       \/ \E s \in Sessions : StartDraftDelete(s, e) \/ StartOffboarding(s, e)

\* What a handler goes on to do.
HandlerStep(r) ==
  \/ \E s \in Sessions : CreateFaceRegistrationSession(r, s)
  \/ WriteStatus(r)
  \/ BindRestockEmployee(r)
  \/ CommitRestock(r)
  \/ CompleteFaceRegistration(r)
  \/ CompleteOffboarding(r)
  \/ FinalizeDraftDelete(r)
  \/ Abort(r)

BackendStep ==
  PortalStep \/ (\E r \in Requests : HandlerStep(r)) \/ \E s \in Sessions : Elapse(s)
=============================================================================
