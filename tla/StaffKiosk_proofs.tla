------------------------- MODULE StaffKiosk_proofs -------------------------
(***************************************************************************)
(* Proofs about module StaffKiosk: its types, the invariant IInv of module *)
(* StaffInv and the safety properties that follow from it.                 *)
(***************************************************************************)
EXTENDS StaffInv, TLAPS

-----------------------------------------------------------------------------
(* What the ways of writing request[r] and session[s] do *)

LEMMA StartFacts ==
  ASSUME TypeOK, NEW r \in Requests, NEW q \in Request, q.at # "idle",
         Start(r, q.at, q.session, q.employee, q.status, q.found)
  PROVE  /\ request' \in [Requests -> Request]
         /\ request'[r] = q
         /\ \A p \in Requests : p # r => request'[p] = request[p]
<1>1. q = [at |-> q.at, session |-> q.session, employee |-> q.employee,
           status |-> q.status, found |-> q.found]
  BY DEF Request
<1> QED
  BY <1>1 DEF TypeOK, BackendTypeOK, Start

LEMMA FinishFacts ==
  ASSUME TypeOK, NEW r \in Requests, Finish(r)
  PROVE  /\ request' \in [Requests -> Request]
         /\ \A p \in Requests : request'[p] \in {request[p], Idle}
<1>1. Idle \in Request
  BY DEF Idle, Request
<1> QED
  BY <1>1 DEF TypeOK, BackendTypeOK, Finish

\* What no step does to a row: take its type, its employee or its existence
\* away, or make it ACTIVE again.
SessionsEvolve ==
  \A s \in Sessions :
    /\ session'[s].type = session[s].type \/ session[s].status = "NONE"
    /\ \/ session'[s].employee = session[s].employee
       \/ session[s].status = "NONE"
       \/ session[s].type = "RESTOCK_AUTH" /\ session[s].employee = Nil
    /\ session[s].status # "NONE" => session'[s].status # "NONE"
    /\ session'[s].status = "ACTIVE" => session[s].status \in {"ACTIVE", "NONE"}

\* What most steps do: nothing but end some sessions that are there.
SessionsSettle ==
  /\ session' \in [Sessions -> Session]
  /\ \A s \in Sessions :
       /\ session'[s].type = session[s].type
       /\ session'[s].employee = session[s].employee
       /\ \/ session'[s].status = session[s].status
          \/ /\ session[s].status \notin {"NONE", "DELETED"}
             /\ session'[s].status \in Ended

LEMMA EndFacts ==
  ASSUME TypeOK, NEW s \in Sessions, NEW status \in Ended,
         session[s].status \notin {"NONE", "DELETED"},
         session' = End(s, status)
  PROVE  SessionsSettle
<1>1. session \in [Sessions -> Session]
  BY DEF TypeOK, BackendTypeOK
<1>2. [session[s] EXCEPT !.status = status] \in Session
  BY <1>1 DEF Session
<1>3. session' = [session EXCEPT ![s] = [session[s] EXCEPT !.status = status]]
  BY DEF End
<1>4. session' \in [Sessions -> Session]
  BY <1>1, <1>2, <1>3
<1>5. \A o \in Sessions : o # s => session'[o] = session[o]
  BY <1>1, <1>3
<1>6. session'[s] = [session[s] EXCEPT !.status = status]
  BY <1>1, <1>3
<1>7. /\ session'[s].type = session[s].type
      /\ session'[s].employee = session[s].employee
      /\ session'[s].status = status
  BY <1>1, <1>6 DEF Session
<1> QED
  BY <1>4, <1>5, <1>7 DEF SessionsSettle

LEMMA ExpiryFacts ==
  ASSUME TypeOK
  PROVE  /\ AfterExpiry \in [Sessions -> Session]
         /\ \A s \in Sessions :
              /\ AfterExpiry[s].type = session[s].type
              /\ AfterExpiry[s].employee = session[s].employee
              /\ AfterExpiry[s].status =
                   IF Overdue(s) THEN "EXPIRED" ELSE session[s].status
<1>1. session \in [Sessions -> Session]
  BY DEF TypeOK, BackendTypeOK
<1>2. ASSUME NEW s \in Sessions
      PROVE  /\ AfterExpiry[s] \in Session
             /\ AfterExpiry[s].type = session[s].type
             /\ AfterExpiry[s].employee = session[s].employee
             /\ AfterExpiry[s].status =
                  IF Overdue(s) THEN "EXPIRED" ELSE session[s].status
  <2>1. CASE Overdue(s)
    <3>1. AfterExpiry[s] = [session[s] EXCEPT !.status = "EXPIRED"]
      BY <2>1 DEF AfterExpiry
    <3> QED
      BY <1>1, <2>1, <3>1 DEF Session, Ended
  <2>2. CASE ~ Overdue(s)
    <3>1. AfterExpiry[s] = session[s]
      BY <2>2 DEF AfterExpiry
    <3> QED
      BY <1>1, <2>2, <3>1
  <2> QED
    BY <2>1, <2>2
<1>3. AfterExpiry \in [Sessions -> Session]
  BY <1>2 DEF AfterExpiry
<1> QED
  BY <1>2, <1>3

LEMMA SettleEvolves ==
  ASSUME SessionsSettle
  PROVE  SessionsEvolve
  BY DEF SessionsSettle, SessionsEvolve, Ended

-----------------------------------------------------------------------------
(* What a step of the sessions leaves of the invariant *)

LEMMA OffboardingStays ==
  ASSUME TypeOK, SessionInv, SessionsEvolve, NEW e, Offboarding(e)
  PROVE  Offboarding(e)'
<1>1. PICK s \in Sessions : /\ session[s].type = "EMPLOYEE_OFFBOARDING"
                            /\ session[s].employee = e
  BY DEF Offboarding
<1>2. session[s].status # "NONE"
  BY <1>1 DEF SessionInv, SessionFacts
<1>3. session'[s].type = "EMPLOYEE_OFFBOARDING" /\ session'[s].employee = e
  BY <1>1, <1>2 DEF SessionsEvolve
<1> QED
  BY <1>3 DEF Offboarding

LEMMA SettledSessions ==
  ASSUME TypeOK, SessionInv, OneActive, SessionsSettle,
         \A e \in Employees :
           employee[e].row = "deleted" => employee'[e].row = "deleted"
  PROVE  /\ SessionInv'
         /\ OneActive'
         /\ \A e : SessionsOf(e)' = SessionsOf(e)
<1>1. ASSUME NEW s \in Sessions
      PROVE  session[s].status # "DELETED" => session'[s].status # "DELETED"
  BY DEF SessionsSettle, Ended
<1>2. \A s \in Sessions : session[s].status = "DELETED" =>
                            session[s].employee \in Employees
  BY DEF SessionInv, SessionFacts, SessionTypes
<1>3. ASSUME NEW s \in Sessions
      PROVE  SessionFacts(s)'
  BY <1>1, <1>2 DEF SessionInv, SessionFacts, SessionsSettle, Ended
<1>4. OneActive'
  BY DEF OneActive, SessionsSettle, Ended
<1>5. ASSUME NEW e
      PROVE  SessionsOf(e)' = SessionsOf(e)
  BY <1>1 DEF SessionsOf, SessionsSettle, Ended
<1> QED
  BY <1>3, <1>4, <1>5 DEF SessionInv

-----------------------------------------------------------------------------
(* What a handler may still rely on after a step it did not take *)

\* What no step but VerifySession does: lose a template that is not being
\* removed, or threaten a record that was reported without one.
FacesKept ==
  /\ \A e \in Employees : Held(e) => Held(e)'
  /\ \A e \in Employees : Absent(e) => Absent(e)'

LEMMA AwaitKept ==
  ASSUME TypeOK, SessionInv, SessionsEvolve, FacesKept,
         matched \subseteq matched', NEW r \in Requests, HandlerFacts(r),
         request'[r] = request[r]
  PROVE  HandlerFacts(r)'
<1> DEFINE q == request[r]
           s == q.session
<1>1. CASE q.at \in {"idle", "create"}
  BY <1>1 DEF HandlerFacts
<1>2. CASE q.at \notin {"idle", "create"}
  <2>1. s \in Sessions /\ session[s].status # "NONE" /\ AwaitInv(r)
    BY <1>2 DEF HandlerFacts
  <2>2. /\ session'[s].status # "NONE"
        /\ session'[s].type = session[s].type
        /\ \/ session'[s].employee = session[s].employee
           \/ session[s].type = "RESTOCK_AUTH" /\ session[s].employee = Nil
        /\ session'[s].status = "ACTIVE" => session[s].status = "ACTIVE"
    BY <2>1 DEF SessionsEvolve
  <2>3. SessionFacts(s)
    BY <2>1 DEF SessionInv
  <2>4. q.at = "write" => q.status \in Ended
    BY <2>1 DEF AwaitInv
  <2>5. q.at \in {"bind", "commit"} =>
          /\ session'[s].type = "RESTOCK_AUTH"
          /\ q.employee \in Employees
          /\ <<s, q.employee>> \in matched'
    BY <2>1, <2>2 DEF AwaitInv
  <2>6. q.at \in {"commit", "register"} => session'[s].employee = q.employee
    BY <2>1, <2>2, NilIsNoId DEF AwaitInv
  <2>7. ASSUME q.at = "register"
        PROVE  /\ session'[s].type = "FACE_REGISTRATION"
               /\ \A e \in Employees : e = q.employee => Held(e)'
    <3>1. /\ session[s].type = "FACE_REGISTRATION"
          /\ Held(q.employee)
      BY <2>1, <2>7 DEF AwaitInv
    <3> QED
      BY <2>2, <3>1 DEF FacesKept
  <2>8. q.at = "offboard" => session'[s].type = "EMPLOYEE_OFFBOARDING"
    BY <2>1, <2>2 DEF AwaitInv
  <2>9. ASSUME q.at = "finalize"
        PROVE  /\ session'[s].type = "EMPLOYEE_DRAFT_DELETE"
               /\ session'[s].employee \in Employees
               /\ \A e \in Employees : e = session'[s].employee =>
                    /\ q.found => Held(e)'
                    /\ ~ q.found /\ session'[s].status = "ACTIVE" => Absent(e)'
    <3>1. session[s].type = "EMPLOYEE_DRAFT_DELETE"
      BY <2>1, <2>9 DEF AwaitInv
    <3>2. session[s].employee \in Employees
      BY <2>3, <3>1 DEF SessionFacts, SessionTypes
    <3>3. session'[s].employee = session[s].employee
      BY <2>2, <3>1
    <3> QED
      BY <2>1, <2>2, <2>9, <3>1, <3>2, <3>3 DEF AwaitInv, FacesKept
  <2>10. q.at = "register" => q.employee \in Employees
    BY <2>1, <2>3 DEF AwaitInv, SessionFacts, SessionTypes
  <2>11. AwaitInv(r)'
    BY <2>4, <2>5, <2>6, <2>7, <2>8, <2>9, <2>10 DEF AwaitInv
  <2> QED
    BY <1>2, <2>1, <2>2, <2>11 DEF HandlerFacts
<1> QED
  BY <1>1, <1>2

LEMMA RequestsKept ==
  ASSUME TypeOK, SessionInv, RequestInv, SessionsEvolve, FacesKept,
         matched \subseteq matched',
         \A r \in Requests : request'[r] \in {request[r], Idle}
  PROVE  RequestInv'
<1> SUFFICES ASSUME NEW r \in Requests
             PROVE  HandlerFacts(r)'
  BY DEF RequestInv
<1>1. HandlerFacts(r)
  BY DEF RequestInv
<1>2. CASE request'[r] = request[r]
  BY <1>1, <1>2, AwaitKept
<1>3. CASE request'[r] = Idle
  BY <1>3 DEF HandlerFacts, Idle
<1> QED
  BY <1>2, <1>3

LEMMA RequestStarted ==
  ASSUME TypeOK, SessionInv, RequestInv, SessionsEvolve, FacesKept,
         matched \subseteq matched',
         NEW r \in Requests, HandlerFacts(r)',
         \A p \in Requests : p # r => request'[p] = request[p]
  PROVE  RequestInv'
<1> SUFFICES ASSUME NEW p \in Requests, p # r
             PROVE  HandlerFacts(p)'
  BY DEF RequestInv
<1> QED
  BY AwaitKept DEF RequestInv

-----------------------------------------------------------------------------
(* What a step of the backend leaves to the page and the Pi *)

EnrollingModes == {"verified", "scanning"}

LEMMA KioskFacts ==
  ASSUME TypeOK, SessionInv, KioskInv, kiosk.mode # "customer"
  PROVE  /\ kiosk.session \in Sessions
         /\ session[kiosk.session].type \in SessionTypes \ {"RESTOCK_AUTH"}
         /\ session[kiosk.session].status # "NONE"
         /\ Subject \in Employees
<1>1. kiosk.session \in Sessions
  BY DEF TypeOK, KioskInv
<1>2. session[kiosk.session].type \in SessionTypes \ {"RESTOCK_AUTH"}
  BY DEF KioskInv, SessionTypes
<1>3. SessionFacts(kiosk.session)
  BY <1>1 DEF SessionInv
<1> QED
  BY <1>1, <1>2, <1>3 DEF SessionFacts, SessionTypes, Subject

LEMMA PageUndisturbed ==
  ASSUME TypeOK, SessionInv, KioskInv, SessionsEvolve,
         UNCHANGED <<kiosk, scan, template>>,
         kiosk.mode \in EnrollingModes =>
           session'[kiosk.session].status # "DELETED"
  PROVE  FacesKept /\ KioskInv'
<1>1. kiosk.mode # "customer" =>
        /\ kiosk.session \in Sessions
        /\ session'[kiosk.session].type = session[kiosk.session].type
        /\ session'[kiosk.session].employee = session[kiosk.session].employee
        /\ Subject \in Employees
  BY KioskFacts DEF SessionsEvolve
<1>2. \A e \in Employees : Held(e) => Held(e)'
  BY OffboardingStays DEF Held
<1>3. \A e \in Employees : Absent(e) => Absent(e)'
  BY <1>1 DEF Absent, Enrolling, Subject
<1>4. kiosk.mode = "sync" => Held(Subject)'
  <2> SUFFICES ASSUME kiosk.mode = "sync"
               PROVE  Held(Subject)'
    OBVIOUS
  <2>1. Held(Subject) /\ Subject \in Employees
    BY <1>1 DEF KioskInv
  <2>2. CASE template[Subject]
    BY <1>1, <2>2 DEF Held, Subject
  <2>3. CASE Offboarding(Subject)
    <3>1. Offboarding(Subject)'
      BY <1>1, <2>3, OffboardingStays DEF Offboarding, Subject
    <3> QED
      BY <3>1 DEF Held
  <2> QED
    BY <2>1, <2>2, <2>3 DEF Held
<1>5. KioskInv'
  BY <1>1, <1>4 DEF KioskInv, EnrollingModes, Subject
<1> QED
  BY <1>2, <1>3, <1>5 DEF FacesKept

LEMMA EmployeeKept ==
  ASSUME NEW e, EmployeeFacts(e), employee'[e] = employee[e],
         SessionsOf(e) \subseteq SessionsOf(e)',
         employee[e].row # "kept" => SessionsOf(e)' = {},
         employee[e].row = "none" => \A s \in Sessions : session'[s].employee # e,
         Held(e) => Held(e)',
         template'[e] \/ scan' = e => template[e] \/ scan = e
  PROVE  EmployeeFacts(e)'
  BY DEF EmployeeFacts

LEMMA LogKept ==
  ASSUME TypeOK, SessionInv, LoggedIsBound, SessionsEvolve,
         UNCHANGED restockLog
  PROVE  LoggedIsBound'
<1> SUFFICES ASSUME NEW s \in Sessions, NEW e \in Employees, restockLog[s][e] > 0
             PROVE  /\ session'[s].type = "RESTOCK_AUTH"
                    /\ session'[s].employee = e
  BY DEF LoggedIsBound
<1>1. session[s].type = "RESTOCK_AUTH" /\ session[s].employee = e
  BY DEF LoggedIsBound
<1>2. session[s].status # "NONE"
  BY <1>1 DEF SessionInv, SessionFacts
<1> QED
  BY <1>1, <1>2, NilIsNoId DEF SessionsEvolve

\* Sessions end, and nothing else changes but the handlers and the log.
LEMMA SettledStep ==
  ASSUME IInv, SessionsSettle,
         UNCHANGED <<employee, kiosk, scan, template, matched>>
  PROVE  /\ SessionInv'
         /\ OneActive'
         /\ EmployeeInv'
         /\ KioskInv'
         /\ BoundWasMatched'
         /\ SessionsEvolve
         /\ FacesKept
<1>1. SessionsEvolve
  BY SettleEvolves
<1>2. SessionInv' /\ OneActive' /\ \A e : SessionsOf(e)' = SessionsOf(e)
  BY SettledSessions DEF IInv
<1>3. kiosk.mode \in EnrollingModes =>
        session'[kiosk.session].status # "DELETED"
  <2> SUFFICES ASSUME kiosk.mode \in EnrollingModes
               PROVE  session'[kiosk.session].status # "DELETED"
    OBVIOUS
  <2>1. kiosk.session \in Sessions
    BY KioskFacts DEF IInv, EnrollingModes
  <2> QED
    BY <2>1 DEF IInv, KioskInv, EnrollingModes, SessionsSettle, Ended
<1>4. FacesKept /\ KioskInv'
  BY <1>1, <1>3, PageUndisturbed DEF IInv
<1>5. ASSUME NEW e \in Employees
      PROVE  EmployeeFacts(e)'
  <2>1. EmployeeFacts(e)
    BY DEF IInv, EmployeeInv
  <2>2. employee[e].row = "none" => \A s \in Sessions : session'[s].employee # e
    BY <2>1 DEF EmployeeFacts, SessionsSettle
  <2>3. Held(e) => Held(e)'
    BY <1>4 DEF FacesKept
  <2>4. employee[e].row # "kept" => SessionsOf(e)' = {}
    BY <1>2, <2>1 DEF EmployeeFacts
  <2>5. SessionsOf(e) \subseteq SessionsOf(e)'
    BY <1>2
  <2> QED
    BY <2>1, <2>2, <2>3, <2>4, <2>5, EmployeeKept
<1>6. BoundWasMatched'
  BY DEF IInv, BoundWasMatched, SessionsSettle
<1> QED
  BY <1>1, <1>2, <1>4, <1>5, <1>6 DEF EmployeeInv

-----------------------------------------------------------------------------
(* Steps that only end sessions, or start and finish handlers *)

piVars == <<kiosk, scan, template, matched>>

LEMMA SettledKeepsInv ==
  ASSUME IInv, SessionsSettle, UNCHANGED <<employee, restockLog, piVars>>,
         request' \in [Requests -> Request],
         \A r \in Requests : request'[r] \in {request[r], Idle}
  PROVE  IInv'
<1>1. /\ SessionInv' /\ OneActive' /\ EmployeeInv' /\ KioskInv'
      /\ BoundWasMatched' /\ SessionsEvolve /\ FacesKept
  BY SettledStep DEF piVars
<1>2. TypeOK'
  BY DEF IInv, TypeOK, BackendTypeOK, SessionsSettle, piVars
<1>3. RequestInv'
  BY <1>1, RequestsKept DEF IInv, piVars
<1>4. LoggedIsBound'
  BY <1>1, LogKept DEF IInv
<1> QED
  BY <1>1, <1>2, <1>3, <1>4 DEF IInv

LEMMA StartKeepsInv ==
  ASSUME IInv, UNCHANGED <<employee, session, restockLog, piVars>>,
         NEW r \in Requests, NEW q \in Request, q.at # "idle",
         Start(r, q.at, q.session, q.employee, q.status, q.found),
         HandlerFacts(r)'
  PROVE  IInv'
<1>1. /\ request' \in [Requests -> Request]
      /\ \A p \in Requests : p # r => request'[p] = request[p]
  BY StartFacts DEF IInv
<1>2. SessionsSettle
  BY DEF IInv, TypeOK, BackendTypeOK, SessionsSettle
<1>3. /\ SessionInv' /\ OneActive' /\ EmployeeInv' /\ KioskInv'
      /\ BoundWasMatched' /\ SessionsEvolve /\ FacesKept
  BY <1>2, SettledStep DEF piVars
<1>4. TypeOK'
  BY <1>1 DEF IInv, TypeOK, BackendTypeOK, piVars
<1>5. RequestInv'
  BY <1>1, <1>3, RequestStarted DEF IInv, piVars
<1>6. LoggedIsBound'
  BY <1>3, LogKept DEF IInv
<1> QED
  BY <1>3, <1>4, <1>5, <1>6 DEF IInv

LEMMA GetCurrentInv ==
  ASSUME IInv, GetCurrent, UNCHANGED piVars
  PROVE  IInv'
<1>1. SessionsSettle
  BY ExpiryFacts DEF IInv, GetCurrent, SessionsSettle, Overdue, Ended
<1>2. /\ request' \in [Requests -> Request]
      /\ \A r \in Requests : request'[r] \in {request[r], Idle}
  BY DEF IInv, TypeOK, BackendTypeOK, GetCurrent
<1> QED
  BY <1>1, <1>2, SettledKeepsInv DEF GetCurrent

LEMMA ElapseInv ==
  ASSUME IInv, NEW s \in Sessions, Elapse(s), UNCHANGED piVars
  PROVE  IInv'
<1>1. session \in [Sessions -> Session]
  BY DEF IInv, TypeOK, BackendTypeOK
<1>2. session' = [session EXCEPT ![s] = [session[s] EXCEPT !.elapsed = TRUE]]
  BY DEF Elapse
<1>3. SessionsSettle
  <2>1. [session[s] EXCEPT !.elapsed = TRUE] \in Session
    BY <1>1 DEF Session
  <2>2. /\ session' \in [Sessions -> Session]
        /\ session'[s] = [session[s] EXCEPT !.elapsed = TRUE]
        /\ \A o \in Sessions : o # s => session'[o] = session[o]
    BY <1>1, <1>2, <2>1
  <2>3. /\ session'[s].type = session[s].type
        /\ session'[s].employee = session[s].employee
        /\ session'[s].status = session[s].status
    BY <1>1, <2>2 DEF Session
  <2> QED
    BY <2>2, <2>3 DEF SessionsSettle
<1>4. /\ request' \in [Requests -> Request]
      /\ \A r \in Requests : request'[r] \in {request[r], Idle}
  BY DEF IInv, TypeOK, BackendTypeOK, Elapse
<1> QED
  BY <1>3, <1>4, SettledKeepsInv DEF Elapse

LEMMA WriteStatusInv ==
  ASSUME IInv, NEW r \in Requests, WriteStatus(r), UNCHANGED piVars
  PROVE  IInv'
<1>1. HandlerFacts(r)
  BY DEF IInv, RequestInv
<1>2. /\ request[r].session \in Sessions
      /\ session[request[r].session].status \notin {"NONE", "DELETED"}
      /\ request[r].status \in Ended
  BY <1>1 DEF WriteStatus, HandlerFacts, AwaitInv
<1>3. SessionsSettle
  BY <1>2, EndFacts DEF IInv, WriteStatus
<1> QED
  BY <1>3, FinishFacts, SettledKeepsInv DEF IInv, WriteStatus

LEMMA AbortInv ==
  ASSUME IInv, NEW r \in Requests, Abort(r), UNCHANGED piVars
  PROVE  IInv'
<1>1. SessionsSettle
  BY DEF IInv, TypeOK, BackendTypeOK, SessionsSettle, Abort
<1> QED
  BY <1>1, FinishFacts, SettledKeepsInv DEF IInv, Abort

LEMMA FindEmployeeToRegisterInv ==
  ASSUME IInv, NEW r \in Requests, NEW e \in Employees,
         FindEmployeeToRegister(r, e), UNCHANGED piVars
  PROVE  IInv'
<1> DEFINE q == [at |-> "create", session |-> Nil, employee |-> e,
                 status |-> "none", found |-> FALSE]
<1>1. q \in Request
  BY DEF Request
<1>2. Start(r, q.at, q.session, q.employee, q.status, q.found)
  BY DEF FindEmployeeToRegister
<1>3. request'[r] = q
  BY <1>1, <1>2, StartFacts DEF IInv
<1>4. HandlerFacts(r)'
  BY <1>3 DEF HandlerFacts
<1> HIDE DEF q
<1> QED
  BY <1>1, <1>2, <1>3, <1>4, StartKeepsInv DEF FindEmployeeToRegister, q

LEMMA TransitionInv ==
  ASSUME IInv, NEW r \in Requests, NEW s \in Sessions,
         NEW next \in {"COMPLETED", "CANCELLED"},
         Transition(r, s, next), UNCHANGED piVars
  PROVE  IInv'
<1>1. PICK status \in Ended : Start(r, "write", s, Nil, status, FALSE)
  BY DEF Transition, Ended
<1> DEFINE q == [at |-> "write", session |-> s, employee |-> Nil,
                 status |-> status, found |-> FALSE]
<1>2. q \in Request
  BY DEF Request
<1>3. Start(r, q.at, q.session, q.employee, q.status, q.found)
  BY <1>1
<1>4. request'[r] = q
  BY <1>2, <1>3, StartFacts DEF IInv
<1>5. session'[s].status # "NONE"
  BY DEF Transition
<1>6. AwaitInv(r)'
  BY <1>4 DEF AwaitInv
<1>7. HandlerFacts(r)'
  BY <1>4, <1>5, <1>6 DEF HandlerFacts
<1> HIDE DEF q
<1> QED
  BY <1>2, <1>3, <1>7, StartKeepsInv DEF Transition, q

LEMMA ReadRestockSessionInv ==
  ASSUME IInv, NEW r \in Requests, NEW s \in Sessions,
         ReadRestockSession(r, s), UNCHANGED piVars
  PROVE  IInv'
<1> DEFINE e == session[s].employee
           q == [at |-> "commit", session |-> s, employee |-> e,
                 status |-> "none", found |-> FALSE]
<1>1. e \in Employees
  BY DEF IInv, TypeOK, BackendTypeOK, Session, ReadRestockSession
<1>2. q \in Request
  BY <1>1 DEF Request
<1>3. Start(r, q.at, q.session, q.employee, q.status, q.found)
  BY DEF ReadRestockSession
<1>4. request'[r] = q
  BY <1>2, <1>3, StartFacts DEF IInv
<1>5. /\ session[s].status # "NONE"
      /\ session[s].type = "RESTOCK_AUTH"
      /\ <<s, e>> \in matched
  BY <1>1 DEF IInv, BoundWasMatched, ReadRestockSession, LiveFor, Live
<1>6. UNCHANGED <<session, matched>>
  BY DEF ReadRestockSession, piVars
<1>7. AwaitInv(r)'
  BY <1>1, <1>4, <1>5, <1>6 DEF AwaitInv
<1>8. HandlerFacts(r)'
  BY <1>4, <1>5, <1>6, <1>7 DEF HandlerFacts
<1> HIDE DEF q
<1> QED
  BY <1>2, <1>3, <1>8, StartKeepsInv DEF ReadRestockSession, q

LEMMA FaceAuthenticateInv ==
  ASSUME IInv, NEW r \in Requests, NEW s \in Sessions, NEW e \in Employees,
         FaceAuthenticate(r, s, e)
  PROVE  IInv'
<1> DEFINE q == [at |-> "bind", session |-> s, employee |-> e,
                 status |-> "none", found |-> FALSE]
<1>1. q \in Request
  BY DEF Request
<1>2. Start(r, q.at, q.session, q.employee, q.status, q.found)
  BY DEF FaceAuthenticate, AuthenticateEmployee
<1>3. request'[r] = q
  BY <1>1, <1>2, StartFacts DEF IInv
<1>4. /\ session[s].status # "NONE"
      /\ session[s].type = "RESTOCK_AUTH"
      /\ <<s, e>> \in matched
  BY DEF FaceAuthenticate, AuthenticateEmployee, Certified, LiveFor, Live
<1>5. UNCHANGED <<session, matched>>
  BY DEF FaceAuthenticate, AuthenticateEmployee
<1>6. AwaitInv(r)'
  BY <1>3, <1>4, <1>5 DEF AwaitInv
<1>7. HandlerFacts(r)'
  BY <1>3, <1>4, <1>5, <1>6 DEF HandlerFacts
<1> HIDE DEF q
<1> QED
  BY <1>1, <1>2, <1>7, StartKeepsInv
  DEF FaceAuthenticate, AuthenticateEmployee, piVars, q

LEMMA SyncRegistrationInv ==
  ASSUME IInv, NEW r \in Requests, SyncRegistration(r)
  PROVE  IInv'
<1> DEFINE s == kiosk.session
           e == session[s].employee
           q == [at |-> "register", session |-> s, employee |-> e,
                 status |-> "none", found |-> FALSE]
<1>1. kiosk.mode = "sync"
  BY DEF SyncRegistration, SyncModes
<1>2. s \in Sessions /\ session[s].status # "NONE" /\ e \in Employees
  BY <1>1, KioskFacts DEF IInv, Subject
<1>3. Held(e)
  BY <1>1 DEF IInv, KioskInv, Subject
<1>4. q \in Request
  BY <1>2 DEF Request
<1>5. Start(r, q.at, q.session, q.employee, q.status, q.found)
  BY DEF SyncRegistration, ReadRegistrationSession
<1>6. request'[r] = q
  BY <1>4, <1>5, StartFacts DEF IInv
<1>7. UNCHANGED <<session, template>>
  BY DEF SyncRegistration, ReadRegistrationSession
<1>8. session[s].type = "FACE_REGISTRATION"
  BY DEF SyncRegistration, ReadRegistrationSession, LiveFor
<1>9. AwaitInv(r)'
  BY <1>3, <1>6, <1>7, <1>8 DEF AwaitInv, Held, Offboarding
<1>10. HandlerFacts(r)'
  BY <1>2, <1>6, <1>7, <1>9 DEF HandlerFacts
<1> HIDE DEF q
<1> QED
  BY <1>4, <1>5, <1>10, StartKeepsInv
  DEF SyncRegistration, ReadRegistrationSession, piVars, q

LEMMA CommitRestockInv ==
  ASSUME IInv, NEW r \in Requests, CommitRestock(r), UNCHANGED piVars
  PROVE  IInv'
<1> DEFINE s == request[r].session
           e == request[r].employee
<1>1. HandlerFacts(r)
  BY DEF IInv, RequestInv
<1>2. /\ s \in Sessions
      /\ e \in Employees
      /\ session[s].status # "NONE"
      /\ session[s].type = "RESTOCK_AUTH"
      /\ session[s].employee = e
  BY <1>1 DEF CommitRestock, HandlerFacts, AwaitInv
<1>3. session[s].status # "DELETED"
  BY <1>2 DEF IInv, SessionInv, SessionFacts
<1>4. SessionsSettle
  BY <1>2, <1>3, EndFacts DEF IInv, CommitRestock, Ended
<1>5. /\ SessionInv' /\ OneActive' /\ EmployeeInv' /\ KioskInv'
      /\ BoundWasMatched' /\ SessionsEvolve /\ FacesKept
  BY <1>4, SettledStep DEF piVars, CommitRestock
<1>6. restockLog \in [Sessions -> [Employees -> Nat]]
  BY DEF IInv, TypeOK, BackendTypeOK
<1>7. restockLog' = [restockLog EXCEPT ![s] =
        [restockLog[s] EXCEPT ![e] = restockLog[s][e] + 1]]
  BY DEF CommitRestock
<1>8. restockLog' \in [Sessions -> [Employees -> Nat]]
  BY <1>2, <1>6, <1>7
<1>9. \A o \in Sessions, f \in Employees :
        restockLog'[o][f] = restockLog[o][f] \/ <<o, f>> = <<s, e>>
  BY <1>2, <1>6, <1>7
<1>10. TypeOK'
  BY <1>4, <1>8, FinishFacts
  DEF IInv, TypeOK, BackendTypeOK, SessionsSettle, piVars, CommitRestock
<1>11. RequestInv'
  BY <1>5, FinishFacts, RequestsKept DEF IInv, piVars, CommitRestock
<1>12. LoggedIsBound'
  BY <1>2, <1>4, <1>9 DEF IInv, LoggedIsBound, SessionsSettle
<1> QED
  BY <1>5, <1>10, <1>11, <1>12 DEF IInv

-----------------------------------------------------------------------------
(* Steps that write an employee's row, and perhaps end a session *)

LEMMA RowWrite ==
  ASSUME IInv, SessionsSettle, UNCHANGED <<restockLog, piVars>>,
         request' \in [Requests -> Request],
         \A r \in Requests : request'[r] \in {request[r], Idle},
         NEW e \in Employees, NEW row \in Employee,
         employee' = [employee EXCEPT ![e] = row],
         employee[e].row = "deleted" => row.row = "deleted",
         row.offboarded =>
           row.row = "kept" /\ ~ row.isActive /\ ~ row.faceRegistered,
         row.row # "none",
         row.row # "kept" => ~ row.faceRegistered /\ SessionsOf(e) = {},
         row.faceRegistered => Held(e),
         SessionsOf(e) = {} /\ ~ row.faceRegistered => ~ employee[e].faceRegistered
  PROVE  IInv'
<1>1. employee \in [Employees -> Employee]
  BY DEF IInv, TypeOK, BackendTypeOK
<1>2. /\ employee' \in [Employees -> Employee]
      /\ employee'[e] = row
      /\ \A f \in Employees : f # e => employee'[f] = employee[f]
  BY <1>1
<1>3. SessionsEvolve
  BY SettleEvolves
<1>4. SessionInv' /\ OneActive' /\ \A f : SessionsOf(f)' = SessionsOf(f)
  BY <1>2, SettledSessions DEF IInv
<1>5. kiosk.mode \in EnrollingModes =>
        session'[kiosk.session].status # "DELETED"
  <2> SUFFICES ASSUME kiosk.mode \in EnrollingModes
               PROVE  session'[kiosk.session].status # "DELETED"
    OBVIOUS
  <2>1. kiosk.session \in Sessions
    BY KioskFacts DEF IInv, EnrollingModes
  <2> QED
    BY <2>1 DEF IInv, KioskInv, EnrollingModes, SessionsSettle, Ended
<1>6. FacesKept /\ KioskInv'
  BY <1>3, <1>5, PageUndisturbed DEF IInv, piVars
<1>7. ASSUME NEW f \in Employees, f # e
      PROVE  EmployeeFacts(f)'
  <2>1. EmployeeFacts(f)
    BY DEF IInv, EmployeeInv
  <2>2. employee[f].row = "none" => \A s \in Sessions : session'[s].employee # f
    BY <2>1 DEF EmployeeFacts, SessionsSettle
  <2>3. Held(f) => Held(f)'
    BY <1>6 DEF FacesKept
  <2>4. employee[f].row # "kept" => SessionsOf(f)' = {}
    BY <1>4, <2>1 DEF EmployeeFacts
  <2>5. SessionsOf(f) \subseteq SessionsOf(f)'
    BY <1>4
  <2> QED
    BY <1>2, <1>7, <2>1, <2>2, <2>3, <2>4, <2>5, EmployeeKept DEF piVars
<1>8. EmployeeFacts(e)'
  <2>1. EmployeeFacts(e)
    BY DEF IInv, EmployeeInv
  <2>2. row.faceRegistered => Held(e)'
    BY <1>6 DEF FacesKept
  <2> QED
    BY <1>2, <1>4, <2>1, <2>2 DEF EmployeeFacts, piVars
<1>9. TypeOK'
  BY <1>2 DEF IInv, TypeOK, BackendTypeOK, SessionsSettle, piVars
<1>10. RequestInv'
  BY <1>3, <1>6, RequestsKept DEF IInv, piVars
<1>11. LoggedIsBound'
  BY <1>3, LogKept DEF IInv
<1>12. BoundWasMatched'
  BY DEF IInv, BoundWasMatched, SessionsSettle, piVars
<1> QED
  BY <1>4, <1>6, <1>7, <1>8, <1>9, <1>10, <1>11, <1>12 DEF IInv, EmployeeInv

LEMMA NoHandlerNoSession ==
  ASSUME IInv, UNCHANGED <<session, request>>
  PROVE  /\ SessionsSettle
         /\ request' \in [Requests -> Request]
         /\ \A r \in Requests : request'[r] \in {request[r], Idle}
  BY DEF IInv, TypeOK, BackendTypeOK, SessionsSettle

LEMMA CreateEmployeeInv ==
  ASSUME IInv, NEW e \in Employees, CreateEmployee(e), UNCHANGED piVars
  PROVE  IInv'
<1> DEFINE row == [row |-> "kept", isActive |-> TRUE, faceRegistered |-> FALSE,
                   offboarded |-> FALSE]
<1>1. row \in Employee
  BY DEF Employee
<1>2. employee' = [employee EXCEPT ![e] = row]
  BY DEF CreateEmployee
<1>3. employee[e].row = "none" /\ ~ employee[e].faceRegistered
  BY DEF CreateEmployee, IInv, EmployeeInv, EmployeeFacts
<1>4. UNCHANGED <<session, request, restockLog>>
  BY DEF CreateEmployee
<1>5. /\ row.row = "kept"
      /\ ~ row.offboarded
      /\ ~ row.faceRegistered
  OBVIOUS
<1> HIDE DEF row
<1> QED
  BY <1>1, <1>2, <1>3, <1>4, <1>5, NoHandlerNoSession, RowWrite

\* isActive is written in a record that is not offboarded.
LEMMA ActivityWrite ==
  ASSUME IInv, NEW e \in Employees, NEW active \in BOOLEAN, Current(e),
         employee' = [employee EXCEPT ![e].isActive = active],
         UNCHANGED <<session, restockLog, request, piVars>>
  PROVE  IInv'
<1> DEFINE row == [employee[e] EXCEPT !.isActive = active]
<1>1. employee[e] \in Employee
  BY DEF IInv, TypeOK, BackendTypeOK
<1>2. /\ row \in Employee
      /\ row.row = employee[e].row
      /\ row.faceRegistered = employee[e].faceRegistered
      /\ row.offboarded = employee[e].offboarded
  BY <1>1 DEF Employee
<1>3. employee' = [employee EXCEPT ![e] = row]
  OBVIOUS
<1>4. employee[e].row = "kept" /\ ~ employee[e].offboarded
  BY DEF Current, Kept
<1>5. employee[e].faceRegistered => Held(e)
  BY DEF IInv, EmployeeInv, EmployeeFacts
<1> HIDE DEF row
<1> QED
  BY <1>2, <1>3, <1>4, <1>5, NoHandlerNoSession, RowWrite

LEMMA DeleteEmployeeInv ==
  ASSUME IInv, NEW e \in Employees, DeleteEmployee(e), UNCHANGED piVars
  PROVE  IInv'
<1> DEFINE row == [employee[e] EXCEPT !.row = "deleted"]
<1>1. employee[e] \in Employee
  BY DEF IInv, TypeOK, BackendTypeOK
<1>2. /\ row \in Employee
      /\ row.row = "deleted"
      /\ row.faceRegistered = employee[e].faceRegistered
      /\ row.offboarded = employee[e].offboarded
  BY <1>1 DEF Employee
<1>3. employee' = [employee EXCEPT ![e] = row]
  BY DEF DeleteEmployee
<1>4. /\ ~ employee[e].offboarded
      /\ ~ employee[e].faceRegistered
      /\ SessionsOf(e) = {}
      /\ UNCHANGED <<session, request, restockLog>>
  BY DEF DeleteEmployee, Current
<1> HIDE DEF row
<1> QED
  BY <1>2, <1>3, <1>4, NoHandlerNoSession, RowWrite

LEMMA CompleteFaceRegistrationInv ==
  ASSUME IInv, NEW r \in Requests, CompleteFaceRegistration(r), UNCHANGED piVars
  PROVE  IInv'
<1> DEFINE s == request[r].session
           e == request[r].employee
           row == [employee[e] EXCEPT !.faceRegistered = TRUE]
<1>1. HandlerFacts(r)
  BY DEF IInv, RequestInv
<1>2. /\ s \in Sessions
      /\ session[s].status # "NONE"
      /\ session[s].type = "FACE_REGISTRATION"
      /\ session[s].employee = e
      /\ Held(e)
  BY <1>1 DEF CompleteFaceRegistration, HandlerFacts, AwaitInv
<1>3. SessionFacts(s)
  BY <1>2 DEF IInv, SessionInv
<1>4. e \in Employees
  BY <1>2, <1>3 DEF SessionFacts, SessionTypes
<1>5. employee[e].row = "kept" /\ ~ employee[e].offboarded
  BY DEF CompleteFaceRegistration, MayRegister, Current, Kept
<1>6. session[s].status # "DELETED"
  BY <1>2, <1>3, <1>5 DEF SessionFacts
<1>7. SessionsSettle
  BY <1>2, <1>6, EndFacts DEF IInv, CompleteFaceRegistration, Ended
<1>8. employee[e] \in Employee
  BY <1>4 DEF IInv, TypeOK, BackendTypeOK
<1>9. /\ row \in Employee
      /\ row.row = employee[e].row
      /\ row.faceRegistered
      /\ row.offboarded = employee[e].offboarded
  BY <1>8 DEF Employee
<1>10. employee' = [employee EXCEPT ![e] = row]
  BY DEF CompleteFaceRegistration
<1>11. /\ request' \in [Requests -> Request]
       /\ \A p \in Requests : request'[p] \in {request[p], Idle}
       /\ UNCHANGED <<restockLog, piVars>>
  BY FinishFacts DEF IInv, CompleteFaceRegistration
<1> HIDE DEF row, s, e
<1> QED
  BY <1>2, <1>4, <1>5, <1>7, <1>9, <1>10, <1>11, RowWrite

LEMMA CompleteOffboardingInv ==
  ASSUME IInv, NEW r \in Requests, CompleteOffboarding(r), UNCHANGED piVars
  PROVE  IInv'
<1> DEFINE s == request[r].session
           e == session[s].employee
           row == [row |-> "kept", isActive |-> FALSE, faceRegistered |-> FALSE,
                   offboarded |-> TRUE]
<1>1. s \in Sessions
  BY DEF IInv, RequestInv, HandlerFacts, CompleteOffboarding
<1>2. /\ session[s].status = "ACTIVE"
      /\ session[s].type = "EMPLOYEE_OFFBOARDING"
  BY DEF CompleteOffboarding, LiveFor, Live
<1>3. e \in Employees
  BY <1>1, <1>2 DEF IInv, SessionInv, SessionFacts, SessionTypes
<1>4. s \in SessionsOf(e)
  BY <1>1, <1>2 DEF SessionsOf
<1>5. employee[e].row = "kept"
  BY <1>3, <1>4 DEF IInv, EmployeeInv, EmployeeFacts
<1>6. SessionsSettle
  BY <1>1, <1>2, EndFacts DEF IInv, CompleteOffboarding, Ended
<1>7. row \in Employee
  BY DEF Employee
<1>8. employee' = [employee EXCEPT ![e] = row]
  BY DEF CompleteOffboarding
<1>9. /\ request' \in [Requests -> Request]
      /\ \A p \in Requests : request'[p] \in {request[p], Idle}
      /\ UNCHANGED <<restockLog, piVars>>
  BY FinishFacts DEF IInv, CompleteOffboarding
<1>10. /\ row.row = "kept"
       /\ ~ row.isActive
       /\ ~ row.faceRegistered
  OBVIOUS
<1> HIDE DEF row, s, e
<1> QED
  BY <1>3, <1>4, <1>5, <1>6, <1>7, <1>8, <1>9, <1>10, RowWrite

-----------------------------------------------------------------------------
(* finalizeDraftDelete *)

\* The record is preserved, or the workflow is refused.
LEMMA DraftKeptInv ==
  ASSUME IInv, NEW r \in Requests, FinalizeDraftDelete(r), UNCHANGED piVars,
         request[r].found \/ ~ DeletableDraft(session[request[r].session].employee,
                                              request[r].session)
  PROVE  IInv'
<1> DEFINE s == request[r].session
           e == session[s].employee
           row == [employee[e] EXCEPT !.isActive = FALSE,
                                      !.faceRegistered = TRUE]
<1>1. HandlerFacts(r)
  BY DEF IInv, RequestInv
<1>2. /\ s \in Sessions
      /\ request[r].found => Held(e)
  BY <1>1 DEF FinalizeDraftDelete, HandlerFacts, AwaitInv
<1>3. /\ session[s].status = "ACTIVE"
      /\ session[s].type = "EMPLOYEE_DRAFT_DELETE"
  BY DEF FinalizeDraftDelete, LiveFor, Live
<1>4. e \in Employees
  BY <1>2, <1>3 DEF IInv, SessionInv, SessionFacts, SessionTypes
<1>5. employee[e].row = "kept" /\ ~ employee[e].offboarded
  BY DEF FinalizeDraftDelete, Current, Kept
<1>6. /\ request' \in [Requests -> Request]
      /\ \A p \in Requests : request'[p] \in {request[p], Idle}
      /\ UNCHANGED <<restockLog, piVars>>
  BY FinishFacts DEF IInv, FinalizeDraftDelete
<1>7. CASE request[r].found
  <2>1. SessionsSettle
    BY <1>2, <1>3, <1>7, EndFacts DEF IInv, FinalizeDraftDelete, Ended
  <2>2. employee[e] \in Employee
    BY <1>4 DEF IInv, TypeOK, BackendTypeOK
  <2>3. /\ row \in Employee
        /\ row.row = employee[e].row
        /\ row.faceRegistered
        /\ row.offboarded = employee[e].offboarded
    BY <2>2 DEF Employee
  <2>4. employee' = [employee EXCEPT ![e] = row]
    BY <1>7 DEF FinalizeDraftDelete
  <2> HIDE DEF row, s, e
  <2> QED
    BY <1>2, <1>4, <1>5, <1>6, <1>7, <2>1, <2>3, <2>4, RowWrite
<1>8. CASE ~ request[r].found
  <2>1. session' = End(s, "CANCELLED") /\ UNCHANGED employee
    BY <1>8 DEF FinalizeDraftDelete
  <2>2. SessionsSettle
    BY <1>2, <1>3, <2>1, EndFacts DEF IInv, Ended
  <2> QED
    BY <1>6, <2>1, <2>2, SettledKeepsInv
<1> QED
  BY <1>7, <1>8

\* The sessions and the record of e are deleted.
LEMMA DraftDeletedInv ==
  ASSUME IInv, NEW r \in Requests, FinalizeDraftDelete(r), UNCHANGED piVars,
         ~ request[r].found, NEW e \in Employees,
         e = session[request[r].session].employee,
         DeletableDraft(e, request[r].session)
  PROVE  IInv'
<1> DEFINE s == request[r].session
           row == [employee[e] EXCEPT !.row = "deleted"]
<1>1. HandlerFacts(r)
  BY DEF IInv, RequestInv
<1>2. /\ session[s].status = "ACTIVE"
      /\ session[s].type = "EMPLOYEE_DRAFT_DELETE"
      /\ Current(e)
  BY DEF FinalizeDraftDelete, LiveFor, Live
<1>3. s \in Sessions /\ Absent(e)
  BY <1>1, <1>2 DEF FinalizeDraftDelete, HandlerFacts, AwaitInv
<1>4. session[s].employee = e
  OBVIOUS
<1>5. /\ employee[e].row = "kept"
      /\ ~ employee[e].offboarded
      /\ ~ employee[e].faceRegistered
  BY <1>2 DEF Current, Kept, DeletableDraft
<1>6. \A o \in SessionsOf(e) :
        session[o].type \in {"FACE_REGISTRATION", "EMPLOYEE_DRAFT_DELETE"}
  BY <1>2 DEF DeletableDraft
<1>7. /\ session' = [o \in Sessions |->
            IF o \in SessionsOf(e) THEN [session[o] EXCEPT !.status = "DELETED"]
            ELSE session[o]]
      /\ employee' = [employee EXCEPT ![e] = row]
      /\ UNCHANGED <<restockLog, piVars>>
  BY DEF FinalizeDraftDelete
<1>8. /\ session \in [Sessions -> Session]
      /\ employee \in [Employees -> Employee]
  BY DEF IInv, TypeOK, BackendTypeOK
<1>9. ASSUME NEW o \in Sessions
      PROVE  /\ session'[o] \in Session
             /\ session'[o].type = session[o].type
             /\ session'[o].employee = session[o].employee
             /\ o \in SessionsOf(e) => session'[o].status = "DELETED"
             /\ o \notin SessionsOf(e) => session'[o].status = session[o].status
  <2>1. CASE o \in SessionsOf(e)
    <3>1. session'[o] = [session[o] EXCEPT !.status = "DELETED"]
      BY <1>7, <2>1
    <3> QED
      BY <1>8, <2>1, <3>1 DEF Session
  <2>2. CASE o \notin SessionsOf(e)
    BY <1>7, <1>8, <2>2
  <2> QED
    BY <2>1, <2>2
<1>10. session' \in [Sessions -> Session]
  BY <1>7, <1>9
<1>11. /\ employee' \in [Employees -> Employee]
       /\ employee'[e].row = "deleted"
       /\ ~ employee'[e].offboarded
       /\ ~ employee'[e].faceRegistered
       /\ \A f \in Employees : f # e => employee'[f] = employee[f]
  <2>1. /\ row \in Employee
        /\ row.row = "deleted"
        /\ row.faceRegistered = employee[e].faceRegistered
        /\ row.offboarded = employee[e].offboarded
    BY <1>4, <1>8 DEF Employee
  <2> HIDE DEF row
  <2> QED
    BY <1>4, <1>5, <1>7, <1>8, <2>1
<1> HIDE DEF row, s
<1>12. SessionsEvolve
  BY <1>9 DEF SessionsEvolve, SessionsOf
<1>13. SessionInv'
  <2> SUFFICES ASSUME NEW o \in Sessions
               PROVE  SessionFacts(o)'
    BY DEF SessionInv
  <2>1. SessionFacts(o)
    BY DEF IInv, SessionInv
  <2>2. CASE o \in SessionsOf(e)
    <3>1. session[o].employee = e /\ session[o].status # "DELETED"
      BY <2>2 DEF SessionsOf
    <3> QED
      BY <1>4, <1>6, <1>9, <1>11, <2>1, <2>2, <3>1 DEF SessionFacts, SessionTypes
  <2>3. CASE o \notin SessionsOf(e)
    <3>1. session[o].status = "DELETED" => session[o].employee \in Employees
      BY <2>1 DEF SessionFacts, SessionTypes
    <3> QED
      BY <1>9, <1>11, <2>1, <2>3, <3>1 DEF SessionFacts
  <2> QED
    BY <2>2, <2>3
<1>14. OneActive'
  BY <1>9 DEF IInv, OneActive
<1>15. kiosk.mode \in EnrollingModes =>
         session'[kiosk.session].status # "DELETED"
  <2> SUFFICES ASSUME kiosk.mode \in EnrollingModes
               PROVE  session'[kiosk.session].status # "DELETED"
    OBVIOUS
  <2>1. kiosk.session \in Sessions
    BY KioskFacts DEF IInv, EnrollingModes
  <2>2. session[kiosk.session].employee # e
    BY <1>3 DEF Absent, Enrolling, EnrollingModes, Subject
  <2> QED
    BY <1>9, <2>1, <2>2 DEF IInv, KioskInv, EnrollingModes, SessionsOf
<1>16. FacesKept /\ KioskInv'
  BY <1>7, <1>12, <1>15, PageUndisturbed DEF IInv, piVars
<1>17. ASSUME NEW f \in Employees, f # e
       PROVE  EmployeeFacts(f)'
  <2>1. EmployeeFacts(f)
    BY DEF IInv, EmployeeInv
  <2>2. SessionsOf(f)' = SessionsOf(f)
    BY <1>9, <1>17 DEF SessionsOf
  <2>3. employee[f].row = "none" => \A o \in Sessions : session'[o].employee # f
    BY <1>9, <2>1 DEF EmployeeFacts
  <2>4. Held(f) => Held(f)'
    BY <1>16 DEF FacesKept
  <2>5. employee[f].row # "kept" => SessionsOf(f)' = {}
    BY <2>1, <2>2 DEF EmployeeFacts
  <2> QED
    BY <1>7, <1>11, <1>17, <2>1, <2>2, <2>3, <2>4, <2>5, EmployeeKept DEF piVars
<1>18. EmployeeFacts(e)'
  <2>1. SessionsOf(e)' = {}
    BY <1>9 DEF SessionsOf
  <2>2. ~ template'[e] /\ scan' # e
    BY <1>3, <1>7 DEF Absent, Enrolling, piVars
  <2> QED
    BY <1>11, <2>1, <2>2 DEF EmployeeFacts
<1>19. TypeOK'
  BY <1>7, <1>10, <1>11, FinishFacts
  DEF IInv, TypeOK, BackendTypeOK, piVars, FinalizeDraftDelete
<1>20. RequestInv'
  BY <1>7, <1>12, <1>16, FinishFacts, RequestsKept
  DEF IInv, piVars, FinalizeDraftDelete
<1>21. LoggedIsBound'
  BY <1>7, <1>12, LogKept DEF IInv
<1>22. BoundWasMatched'
  BY <1>7, <1>9 DEF IInv, BoundWasMatched, piVars
<1> QED
  BY <1>13, <1>14, <1>16, <1>17, <1>18, <1>19, <1>20, <1>21, <1>22
  DEF IInv, EmployeeInv

-----------------------------------------------------------------------------
(* Steps that open a session *)

LEMMA CreateFacts ==
  ASSUME TypeOK, NEW s \in Sessions, NEW type \in SessionTypes,
         NEW e \in Employees \union {Nil}, Create(s, type, e)
  PROVE  /\ session[s].status = "NONE"
         /\ session' \in [Sessions -> Session]
         /\ session'[s].type = type
         /\ session'[s].employee = e
         /\ session'[s].status = "ACTIVE"
         /\ \A o \in Sessions : o # s =>
              /\ session'[o].type = session[o].type
              /\ session'[o].employee = session[o].employee
              /\ session'[o].status \in {session[o].status, "EXPIRED"}
              /\ session'[o].status # "ACTIVE"
              /\ session'[o].status = "EXPIRED" =>
                   session[o].status \in {"ACTIVE", "EXPIRED"}
<1> DEFINE new == [type |-> type, status |-> "ACTIVE", employee |-> e,
                   elapsed |-> FALSE]
<1>1. new \in Session
  BY DEF Session
<1>2. session' = [AfterExpiry EXCEPT ![s] = new]
  BY DEF Create
<1>3. /\ session' \in [Sessions -> Session]
      /\ session'[s] = new
      /\ \A o \in Sessions : o # s => session'[o] = AfterExpiry[o]
  BY <1>1, <1>2, ExpiryFacts
<1>4. \A o \in Sessions :
        Overdue(o) \/ session[o].status # "ACTIVE"
  BY DEF Create, Live, Overdue, TypeOK, BackendTypeOK, Session
<1>5. session[s].status = "NONE"
  BY DEF Create
<1>6. ASSUME NEW o \in Sessions, o # s
      PROVE  /\ session'[o].type = session[o].type
             /\ session'[o].employee = session[o].employee
             /\ session'[o].status \in {session[o].status, "EXPIRED"}
             /\ session'[o].status # "ACTIVE"
             /\ session'[o].status = "EXPIRED" =>
                  session[o].status \in {"ACTIVE", "EXPIRED"}
  BY <1>3, <1>4, <1>6, ExpiryFacts DEF Overdue
<1>7. new.type = type /\ new.employee = e /\ new.status = "ACTIVE"
  OBVIOUS
<1> HIDE DEF new
<1> QED
  BY <1>3, <1>5, <1>6, <1>7

LEMMA CreationStep ==
  ASSUME IInv, NEW s \in Sessions, NEW type \in SessionTypes,
         NEW e \in Employees \union {Nil}, Create(s, type, e),
         type = "RESTOCK_AUTH" => e = Nil,
         type # "RESTOCK_AUTH" => e \in Employees /\ employee[e].row = "kept",
         employee' \in [Employees -> Employee],
         \A f \in Employees :
           /\ employee'[f].row = employee[f].row
           /\ employee'[f].faceRegistered = employee[f].faceRegistered
           /\ employee'[f].offboarded = employee[f].offboarded
           /\ employee'[f].isActive => employee[f].isActive,
         UNCHANGED <<restockLog, piVars>>,
         request' \in [Requests -> Request],
         \A r \in Requests : request'[r] \in {request[r], Idle}
  PROVE  IInv'
<1>1. /\ session[s].status = "NONE"
      /\ session' \in [Sessions -> Session]
      /\ session'[s].type = type
      /\ session'[s].employee = e
      /\ session'[s].status = "ACTIVE"
      /\ \A o \in Sessions : o # s =>
           /\ session'[o].type = session[o].type
           /\ session'[o].employee = session[o].employee
           /\ session'[o].status \in {session[o].status, "EXPIRED"}
           /\ session'[o].status # "ACTIVE"
           /\ session'[o].status = "EXPIRED" =>
                session[o].status \in {"ACTIVE", "EXPIRED"}
  BY CreateFacts DEF IInv
<1>2. SessionsEvolve
  BY <1>1 DEF SessionsEvolve
<1>3. ASSUME NEW o \in Sessions
      PROVE  SessionFacts(o)'
  <2>1. CASE o = s
    BY <1>1, <2>1 DEF SessionFacts, SessionTypes
  <2>2. CASE o # s
    <3>1. SessionFacts(o)
      BY DEF IInv, SessionInv
    <3>2. session[o].status = "DELETED" => session[o].employee \in Employees
      BY <3>1 DEF SessionFacts, SessionTypes
    <3> QED
      BY <1>1, <2>2, <3>1, <3>2 DEF SessionFacts
  <2> QED
    BY <2>1, <2>2
<1>4. OneActive'
  BY <1>1 DEF OneActive
<1>5. kiosk.mode # "customer" => kiosk.session \in Sessions /\ kiosk.session # s
  BY <1>1, KioskFacts DEF IInv
<1>6. kiosk.mode \in EnrollingModes =>
        session'[kiosk.session].status # "DELETED"
  BY <1>1, <1>5 DEF IInv, KioskInv, EnrollingModes
<1>7. FacesKept /\ KioskInv'
  BY <1>2, <1>6, PageUndisturbed DEF IInv, piVars
<1>8. session[s].employee = Nil
  BY <1>1 DEF IInv, SessionInv, SessionFacts
<1>9. ASSUME NEW f \in Employees
      PROVE  EmployeeFacts(f)'
  <2>1. EmployeeFacts(f)
    BY DEF IInv, EmployeeInv
  <2>2. \A o \in SessionsOf(f) : o # s
    BY <1>8, NilIsNoId DEF SessionsOf
  <2>3. SessionsOf(f) \subseteq SessionsOf(f)'
    BY <1>1, <2>2 DEF SessionsOf
  <2>4. employee[f].row # "kept" => f # e
    BY NilIsNoId
  <2>5. employee[f].row # "kept" => SessionsOf(f)' = {}
    BY <1>1, <2>1, <2>4 DEF EmployeeFacts, SessionsOf
  <2>6. employee[f].row = "none" => \A o \in Sessions : session'[o].employee # f
    BY <1>1, <2>1, <2>4 DEF EmployeeFacts
  <2>7. Held(f) => Held(f)'
    BY <1>7 DEF FacesKept
  <2> QED
    BY <2>1, <2>3, <2>5, <2>6, <2>7 DEF EmployeeFacts, piVars
<1>10. TypeOK'
  BY <1>1 DEF IInv, TypeOK, BackendTypeOK, piVars
<1>11. RequestInv'
  BY <1>2, <1>7, RequestsKept DEF IInv, piVars
<1>12. LoggedIsBound'
  BY <1>2, LogKept DEF IInv
<1>13. BoundWasMatched'
  BY <1>1, NilIsNoId DEF IInv, BoundWasMatched, piVars
<1> QED
  BY <1>3, <1>4, <1>7, <1>9, <1>10, <1>11, <1>12, <1>13
  DEF IInv, SessionInv, EmployeeInv

LEMMA CreateRestockSessionInv ==
  ASSUME IInv, NEW s \in Sessions, CreateRestockSession(s), UNCHANGED piVars
  PROVE  IInv'
<1>1. /\ employee' \in [Employees -> Employee]
      /\ request' \in [Requests -> Request]
      /\ UNCHANGED <<employee, request, restockLog>>
  BY DEF IInv, TypeOK, BackendTypeOK, CreateRestockSession
<1> QED
  BY <1>1, CreationStep DEF CreateRestockSession, SessionTypes

LEMMA CreateFaceRegistrationSessionInv ==
  ASSUME IInv, NEW r \in Requests, NEW s \in Sessions,
         CreateFaceRegistrationSession(r, s), UNCHANGED piVars
  PROVE  IInv'
<1>1. request[r].employee \in Employees
  BY DEF IInv, RequestInv, HandlerFacts, CreateFaceRegistrationSession
<1>2. /\ employee' \in [Employees -> Employee]
      /\ UNCHANGED <<employee, restockLog>>
      /\ employee[request[r].employee].row = "kept"
      /\ Create(s, "FACE_REGISTRATION", request[r].employee)
  BY DEF IInv, TypeOK, BackendTypeOK, CreateFaceRegistrationSession, Kept
<1>3. /\ request' \in [Requests -> Request]
      /\ \A p \in Requests : request'[p] \in {request[p], Idle}
  BY FinishFacts DEF IInv, CreateFaceRegistrationSession
<1> QED
  BY <1>1, <1>2, <1>3, CreationStep DEF SessionTypes

LEMMA StartDraftDeleteInv ==
  ASSUME IInv, NEW s \in Sessions, NEW e \in Employees,
         StartDraftDelete(s, e), UNCHANGED piVars
  PROVE  IInv'
<1>1. /\ employee' \in [Employees -> Employee]
      /\ request' \in [Requests -> Request]
      /\ UNCHANGED <<employee, request, restockLog>>
      /\ employee[e].row = "kept"
  BY DEF IInv, TypeOK, BackendTypeOK, StartDraftDelete, Current, Kept
<1> QED
  BY <1>1, CreationStep DEF StartDraftDelete, SessionTypes

LEMMA StartOffboardingInv ==
  ASSUME IInv, NEW s \in Sessions, NEW e \in Employees,
         StartOffboarding(s, e), UNCHANGED piVars
  PROVE  IInv'
<1> DEFINE row == [employee[e] EXCEPT !.isActive = FALSE]
<1>1. /\ employee \in [Employees -> Employee]
      /\ request' \in [Requests -> Request]
      /\ UNCHANGED <<request, restockLog>>
      /\ employee[e].row = "kept"
      /\ employee' = [employee EXCEPT ![e] = row]
  BY DEF IInv, TypeOK, BackendTypeOK, StartOffboarding, Current, Kept
<1>2. /\ row \in Employee
      /\ row.row = employee[e].row
      /\ row.faceRegistered = employee[e].faceRegistered
      /\ row.offboarded = employee[e].offboarded
      /\ ~ row.isActive
  BY <1>1 DEF Employee
<1> HIDE DEF row
<1>3. /\ employee' \in [Employees -> Employee]
      /\ \A f \in Employees :
           /\ employee'[f].row = employee[f].row
           /\ employee'[f].faceRegistered = employee[f].faceRegistered
           /\ employee'[f].offboarded = employee[f].offboarded
           /\ employee'[f].isActive => employee[f].isActive
  BY <1>1, <1>2
<1> QED
  BY <1>1, <1>3, CreationStep DEF StartOffboarding, SessionTypes

-----------------------------------------------------------------------------
(* The step that binds an employee to a restock session *)

LEMMA BindRestockEmployeeInv ==
  ASSUME IInv, NEW r \in Requests, BindRestockEmployee(r), UNCHANGED piVars,
         NEW s \in Sessions, NEW e \in Employees,
         s = request[r].session, e = request[r].employee
  PROVE  IInv'
<1> DEFINE new == [session[s] EXCEPT !.employee = e]
<1>1. HandlerFacts(r)
  BY DEF IInv, RequestInv
<1>2. <<s, e>> \in matched
  BY <1>1 DEF BindRestockEmployee, HandlerFacts, AwaitInv
<1>3. /\ session[s].type = "RESTOCK_AUTH"
      /\ session[s].status = "ACTIVE"
      /\ session[s].employee \in {Nil, e}
      /\ employee[e].row = "kept"
      /\ session' = [session EXCEPT ![s] = new]
      /\ UNCHANGED <<employee, restockLog, piVars>>
  BY DEF BindRestockEmployee, MayBind, LiveFor, Live, Kept
<1>4. session \in [Sessions -> Session]
  BY DEF IInv, TypeOK, BackendTypeOK
<1>5. /\ new \in Session
      /\ new.type = session[s].type
      /\ new.status = session[s].status
      /\ new.employee = e
  BY <1>4 DEF Session
<1> HIDE DEF new
<1>6. /\ session' \in [Sessions -> Session]
      /\ session'[s].type = "RESTOCK_AUTH"
      /\ session'[s].status = "ACTIVE"
      /\ session'[s].employee = e
      /\ \A o \in Sessions : o # s => session'[o] = session[o]
  BY <1>3, <1>4, <1>5
<1>7. SessionsEvolve
  BY <1>3, <1>6 DEF SessionsEvolve
<1>8. ASSUME NEW o \in Sessions
      PROVE  SessionFacts(o)'
  <2>1. SessionFacts(o)
    BY DEF IInv, SessionInv
  <2> QED
    BY <1>3, <1>6, <2>1 DEF SessionFacts, SessionTypes
<1>9. OneActive'
  BY <1>3, <1>6 DEF IInv, OneActive
<1>10. kiosk.mode \in EnrollingModes =>
         session'[kiosk.session].status # "DELETED"
  <2> SUFFICES ASSUME kiosk.mode \in EnrollingModes
               PROVE  session'[kiosk.session].status # "DELETED"
    OBVIOUS
  <2>1. kiosk.session \in Sessions
    BY KioskFacts DEF IInv, EnrollingModes
  <2> QED
    BY <1>6, <2>1 DEF IInv, KioskInv, EnrollingModes
<1>11. FacesKept /\ KioskInv'
  BY <1>3, <1>7, <1>10, PageUndisturbed DEF IInv, piVars
<1>12. ASSUME NEW f \in Employees
       PROVE  EmployeeFacts(f)'
  <2>1. EmployeeFacts(f)
    BY DEF IInv, EmployeeInv
  <2>2. SessionsOf(f) \subseteq SessionsOf(f)'
    BY <1>3, <1>6, NilIsNoId DEF SessionsOf
  <2>3. employee[f].row # "kept" => SessionsOf(f)' = {}
    BY <1>3, <1>6, <2>1 DEF EmployeeFacts, SessionsOf
  <2>4. employee[f].row = "none" => \A o \in Sessions : session'[o].employee # f
    BY <1>3, <1>6, <2>1 DEF EmployeeFacts
  <2>5. Held(f) => Held(f)'
    BY <1>11 DEF FacesKept
  <2> QED
    BY <1>3, <2>1, <2>2, <2>3, <2>4, <2>5, EmployeeKept DEF piVars
<1>13. TypeOK'
  BY <1>3, <1>6, FinishFacts
  DEF IInv, TypeOK, BackendTypeOK, piVars, BindRestockEmployee
<1>14. RequestInv'
  BY <1>3, <1>7, <1>11, FinishFacts, RequestsKept
  DEF IInv, piVars, BindRestockEmployee
<1>15. LoggedIsBound'
  BY <1>3, <1>7, LogKept DEF IInv
<1>16. BoundWasMatched'
  BY <1>2, <1>3, <1>6 DEF IInv, BoundWasMatched, piVars
<1> QED
  BY <1>8, <1>9, <1>11, <1>12, <1>13, <1>14, <1>15, <1>16
  DEF IInv, SessionInv, EmployeeInv

-----------------------------------------------------------------------------
(* Steps of the page and the Pi *)

LEMMA PageStep ==
  ASSUME IInv, UNCHANGED <<employee, session, restockLog>>,
         kiosk' \in [mode : Modes, session : Sessions \union {Nil}],
         scan' \in Employees \union {Nil},
         template' \in [Employees -> BOOLEAN],
         matched' \in SUBSET (Sessions \X Employees),
         matched \subseteq matched',
         request' \in [Requests -> Request],
         KioskInv', RequestInv',
         \A e \in Employees : Held(e) => Held(e)',
         \A e \in Employees :
           template'[e] \/ scan' = e =>
             template[e] \/ scan = e \/ SessionsOf(e) # {}
  PROVE  IInv'
<1>1. TypeOK'
  BY DEF IInv, TypeOK, BackendTypeOK
<1>2. SessionInv' /\ OneActive' /\ BoundWasMatched' /\ LoggedIsBound'
  BY DEF IInv, SessionInv, SessionFacts, OneActive, BoundWasMatched,
         LoggedIsBound
<1>3. ASSUME NEW e \in Employees
      PROVE  EmployeeFacts(e)'
  <2>1. EmployeeFacts(e)
    BY DEF IInv, EmployeeInv
  <2>2. SessionsOf(e)' = SessionsOf(e)
    BY DEF SessionsOf
  <2> QED
    BY <2>1, <2>2 DEF EmployeeFacts
<1> QED
  BY <1>1, <1>2, <1>3 DEF IInv, EmployeeInv

\* The page shows another screen, and no scan begins or ends.
LEMMA ScreenStep ==
  ASSUME IInv, UNCHANGED <<backendVars, scan, template, matched>>,
         kiosk' \in [mode : Modes, session : Sessions \union {Nil}],
         KioskInv',
         kiosk'.mode \in EnrollingModes =>
           kiosk.mode \in EnrollingModes /\ kiosk'.session = kiosk.session
  PROVE  IInv'
<1>1. UNCHANGED <<employee, session, restockLog, request>>
  BY DEF backendVars
<1>2. \A e \in Employees : Held(e) => Held(e)'
  BY <1>1 DEF Held, Offboarding
<1>3. \A e \in Employees : Absent(e) => Absent(e)'
  BY <1>1 DEF Absent, Enrolling, EnrollingModes, Subject
<1>4. SessionsEvolve
  BY <1>1 DEF SessionsEvolve
<1>5. RequestInv'
  BY <1>1, <1>2, <1>3, <1>4, RequestsKept DEF IInv, FacesKept
<1> QED
  BY <1>1, <1>2, <1>5, PageStep DEF IInv, TypeOK, BackendTypeOK

LEMMA ShowFacts ==
  ASSUME TypeOK, NEW mode \in Modes, Show(mode)
  PROVE  /\ kiosk' \in [mode : Modes, session : Sessions \union {Nil}]
         /\ kiosk'.mode = mode
         /\ kiosk'.session = kiosk.session
  BY DEF TypeOK, Show

LEMMA AcceptSessionInv ==
  ASSUME IInv, NEW s \in Sessions, AcceptSession(s)
  PROVE  IInv'
<1>1. /\ session \in [Sessions -> Session]
      /\ session[s].status = "ACTIVE"
      /\ session[s].type # "RESTOCK_AUTH"
      /\ session[s].type # "none"
  BY DEF IInv, TypeOK, BackendTypeOK, SessionInv, SessionFacts, AcceptSession,
         Live
<1>2. session[s].type \in SessionTypes \ {"RESTOCK_AUTH"}
  BY <1>1 DEF Session
<1>3. /\ kiosk'.mode = ModeFor(session[s].type)
      /\ kiosk'.session = s
      /\ kiosk' = [mode |-> ModeFor(session[s].type), session |-> s]
      /\ UNCHANGED session
  BY DEF AcceptSession, backendVars
<1>4. \/ session[s].type = "FACE_REGISTRATION" /\ kiosk'.mode = "registration"
      \/ session[s].type = "EMPLOYEE_DRAFT_DELETE" /\ kiosk'.mode = "draftDelete"
      \/ session[s].type = "EMPLOYEE_OFFBOARDING" /\ kiosk'.mode = "offboarding"
  BY <1>2, <1>3 DEF ModeFor, SessionTypes
<1>5. kiosk' \in [mode : Modes, session : Sessions \union {Nil}]
  BY <1>3, <1>4 DEF Modes
<1>6. KioskInv'
  BY <1>3, <1>4, NilIsNoId DEF KioskInv
<1> QED
  BY <1>4, <1>5, <1>6, ScreenStep DEF AcceptSession, EnrollingModes

LEMMA LeaveInv ==
  ASSUME IInv, Leave
  PROVE  IInv'
<1>1. /\ kiosk' \in [mode : Modes, session : Sessions \union {Nil}]
      /\ kiosk'.mode = "customer"
      /\ kiosk'.session = Nil
  BY DEF Leave, AtHome, Modes
<1>2. KioskInv'
  BY <1>1 DEF KioskInv
<1> QED
  BY <1>1, <1>2, ScreenStep DEF Leave, EnrollingModes

LEMMA FindTemplateInv ==
  ASSUME IInv, FindTemplate
  PROVE  IInv'
<1>1. /\ kiosk' \in [mode : Modes, session : Sessions \union {Nil}]
      /\ kiosk'.mode = "sync"
      /\ kiosk'.session = kiosk.session
      /\ kiosk.mode = "registration"
      /\ template[Subject]
      /\ UNCHANGED <<session, template, scan>>
  BY ShowFacts DEF IInv, FindTemplate, Modes, backendVars
<1>2. Held(Subject)'
  BY <1>1 DEF Held, Subject
<1>3. KioskInv'
  BY <1>1, <1>2 DEF IInv, KioskInv
<1> QED
  BY <1>1, <1>3, ScreenStep DEF FindTemplate, EnrollingModes

LEMMA BusyScanInv ==
  ASSUME IInv, BusyScan
  PROVE  IInv'
<1>1. /\ kiosk' \in [mode : Modes, session : Sessions \union {Nil}]
      /\ kiosk'.mode = "registration"
      /\ kiosk'.session = kiosk.session
      /\ kiosk.mode = "verified"
      /\ UNCHANGED session
  BY ShowFacts DEF IInv, BusyScan, Modes, backendVars
<1>2. KioskInv'
  BY <1>1 DEF IInv, KioskInv
<1> QED
  BY <1>1, <1>2, ScreenStep DEF BusyScan, EnrollingModes

\* The page's session is live, so no report about a draft can be effective.
LEMMA VerifySessionInv ==
  ASSUME IInv, VerifySession
  PROVE  IInv'
<1>1. /\ kiosk' \in [mode : Modes, session : Sessions \union {Nil}]
      /\ kiosk'.mode = "verified"
      /\ kiosk'.session = kiosk.session
      /\ kiosk.mode = "registration"
      /\ session[kiosk.session].status = "ACTIVE"
      /\ UNCHANGED <<employee, session, restockLog, request, scan, template,
                     matched>>
  BY ShowFacts DEF IInv, VerifySession, Live, Modes, backendVars
<1>2. /\ kiosk.session \in Sessions
      /\ session[kiosk.session].type = "FACE_REGISTRATION"
  BY <1>1, KioskFacts DEF IInv, KioskInv
<1>3. KioskInv'
  BY <1>1 DEF IInv, KioskInv
<1>4. \A e \in Employees : Held(e) => Held(e)'
  BY <1>1 DEF Held, Offboarding
<1>5. ASSUME NEW r \in Requests
      PROVE  HandlerFacts(r)'
  <2> DEFINE q == request[r]
             s == q.session
  <2>1. HandlerFacts(r)
    BY DEF IInv, RequestInv
  <2>2. CASE q.at \in {"idle", "create"}
    BY <1>1, <2>1, <2>2 DEF HandlerFacts
  <2>3. CASE q.at \notin {"idle", "create"}
    <3>1. s \in Sessions /\ session[s].status # "NONE" /\ AwaitInv(r)
      BY <2>1, <2>3 DEF HandlerFacts
    <3>2. q.at = "finalize" =>
            session[s].type = "EMPLOYEE_DRAFT_DELETE" /\ session[s].status # "ACTIVE"
      BY <1>1, <1>2, <3>1 DEF AwaitInv, IInv, OneActive
    <3>3. AwaitInv(r)'
      BY <1>1, <3>1, <3>2 DEF AwaitInv, Held, Offboarding
    <3> QED
      BY <1>1, <2>3, <3>1, <3>3 DEF HandlerFacts
  <2> QED
    BY <2>2, <2>3
<1>6. RequestInv'
  BY <1>5 DEF RequestInv
<1> QED
  BY <1>1, <1>3, <1>4, <1>6, PageStep DEF IInv, TypeOK, BackendTypeOK

LEMMA BeginScanInv ==
  ASSUME IInv, BeginScan
  PROVE  IInv'
<1>1. /\ kiosk' \in [mode : Modes, session : Sessions \union {Nil}]
      /\ kiosk'.mode = "scanning"
      /\ kiosk'.session = kiosk.session
      /\ kiosk.mode = "verified"
      /\ scan = Nil
      /\ scan' = Subject
      /\ UNCHANGED <<employee, session, restockLog, request, template, matched>>
  BY ShowFacts DEF IInv, BeginScan, PiIsFree, Modes, backendVars
<1>2. /\ kiosk.session \in Sessions
      /\ session[kiosk.session].status \notin {"NONE", "DELETED"}
      /\ Subject \in Employees
  BY <1>1, KioskFacts DEF IInv, KioskInv
<1>3. kiosk.session \in SessionsOf(Subject)
  BY <1>2 DEF SessionsOf, Subject
<1>4. KioskInv'
  BY <1>1, <1>2 DEF IInv, KioskInv, Subject
<1>5. \A e \in Employees : Held(e) => Held(e)'
  BY <1>1 DEF Held, Offboarding
<1>6. \A e \in Employees : Absent(e) => Absent(e)'
  BY <1>1 DEF Absent, Enrolling, Subject
<1>7. SessionsEvolve
  BY <1>1 DEF SessionsEvolve
<1>8. RequestInv'
  BY <1>1, <1>5, <1>6, <1>7, RequestsKept DEF IInv, FacesKept
<1>9. \A e \in Employees :
        template'[e] \/ scan' = e =>
          template[e] \/ scan = e \/ SessionsOf(e) # {}
  BY <1>1, <1>3
<1> QED
  BY <1>1, <1>2, <1>4, <1>5, <1>8, <1>9, PageStep
  DEF IInv, TypeOK, BackendTypeOK

LEMMA ScanShowsFacts ==
  ASSUME TypeOK, NEW mode \in Modes, ScanShows(mode)
  PROVE  /\ kiosk' \in [mode : Modes, session : Sessions \union {Nil}]
         /\ kiosk'.session = kiosk.session
         /\ kiosk'.mode = IF kiosk.mode = "scanning" THEN mode ELSE kiosk.mode
  BY DEF TypeOK, ScanShows

LEMMA ScanSucceedsInv ==
  ASSUME IInv, ScanSucceeds
  PROVE  IInv'
<1>1. /\ kiosk' \in [mode : Modes, session : Sessions \union {Nil}]
      /\ kiosk'.session = kiosk.session
      /\ kiosk'.mode = IF kiosk.mode = "scanning" THEN "sync" ELSE kiosk.mode
  BY ScanShowsFacts DEF IInv, ScanSucceeds, Modes
<1>2. /\ scan \in Employees
      /\ template \in [Employees -> BOOLEAN]
      /\ template' = [template EXCEPT ![scan] = TRUE]
      /\ scan' = Nil
      /\ UNCHANGED <<employee, session, restockLog, request, matched>>
  BY DEF IInv, TypeOK, ScanSucceeds, backendVars
<1>3. /\ template' \in [Employees -> BOOLEAN]
      /\ template'[scan]
      /\ \A e \in Employees : e # scan => template'[e] = template[e]
  BY <1>2
<1>4. \A e \in Employees : Held(e) => Held(e)'
  BY <1>2, <1>3 DEF Held, Offboarding
<1>5. \A e \in Employees : Absent(e) => Absent(e)'
  BY <1>1, <1>2, <1>3, NilIsNoId DEF Absent, Enrolling, Subject
<1>6. kiosk'.mode = "sync" => Held(Subject)'
  <2>1. CASE kiosk.mode = "scanning"
    <3>1. scan = Subject
      BY <2>1 DEF IInv, KioskInv
    <3>2. template'[Subject]
      BY <1>3, <3>1
    <3> QED
      BY <1>1, <1>2, <3>2 DEF Held, Subject
  <2>2. CASE kiosk.mode = "sync"
    <3>1. Held(Subject) /\ Subject \in Employees
      BY <2>2, KioskFacts DEF IInv, KioskInv
    <3> QED
      BY <1>1, <1>2, <1>3, <3>1 DEF Held, Offboarding, Subject
  <2> QED
    BY <1>1, <2>1, <2>2
<1>7. KioskInv'
  BY <1>1, <1>2, <1>6 DEF IInv, KioskInv, Subject
<1>8. SessionsEvolve
  BY <1>2 DEF SessionsEvolve
<1>9. RequestInv'
  BY <1>2, <1>4, <1>5, <1>8, RequestsKept DEF IInv, FacesKept
<1>10. \A e \in Employees :
         template'[e] \/ scan' = e =>
           template[e] \/ scan = e \/ SessionsOf(e) # {}
  BY <1>2, <1>3, NilIsNoId
<1> QED
  BY <1>1, <1>2, <1>3, <1>4, <1>7, <1>9, <1>10, PageStep
  DEF IInv, TypeOK, BackendTypeOK

LEMMA ScanFailsInv ==
  ASSUME IInv, ScanFails
  PROVE  IInv'
<1>1. /\ kiosk' \in [mode : Modes, session : Sessions \union {Nil}]
      /\ kiosk'.session = kiosk.session
      /\ kiosk'.mode =
           IF kiosk.mode = "scanning" THEN "registration" ELSE kiosk.mode
  BY ScanShowsFacts DEF IInv, ScanFails, Modes
<1>2. /\ scan' = Nil
      /\ UNCHANGED <<employee, session, restockLog, request, template, matched>>
  BY DEF ScanFails, backendVars
<1>3. \A e \in Employees : Held(e) => Held(e)'
  BY <1>2 DEF Held, Offboarding
<1>4. \A e \in Employees : Absent(e) => Absent(e)'
  BY <1>1, <1>2, NilIsNoId DEF Absent, Enrolling, Subject
<1>5. kiosk'.mode = "sync" => Held(Subject)'
  BY <1>1, <1>2 DEF IInv, KioskInv, Held, Offboarding, Subject
<1>6. KioskInv'
  BY <1>1, <1>2, <1>5 DEF IInv, KioskInv, Subject
<1>7. SessionsEvolve
  BY <1>2 DEF SessionsEvolve
<1>8. RequestInv'
  BY <1>2, <1>3, <1>4, <1>7, RequestsKept DEF IInv, FacesKept
<1>9. \A e \in Employees :
        template'[e] \/ scan' = e =>
          template[e] \/ scan = e \/ SessionsOf(e) # {}
  BY <1>2, NilIsNoId
<1> QED
  BY <1>1, <1>2, <1>3, <1>6, <1>8, <1>9, PageStep
  DEF IInv, TypeOK, BackendTypeOK

LEMMA RecogniseFaceInv ==
  ASSUME IInv, NEW s \in Sessions, NEW e \in Employees, RecogniseFace(s, e)
  PROVE  IInv'
<1>1. /\ matched' = matched \union {<<s, e>>}
      /\ UNCHANGED <<employee, session, restockLog, request, kiosk, scan,
                     template>>
  BY DEF RecogniseFace, backendVars
<1>2. matched \subseteq matched' /\ matched' \in SUBSET (Sessions \X Employees)
  BY <1>1 DEF IInv, TypeOK
<1>3. SessionsEvolve
  BY <1>1 DEF SessionsEvolve
<1>4. FacesKept
  BY <1>1 DEF FacesKept, Held, Offboarding, Absent, Enrolling, Subject
<1>5. KioskInv'
  BY <1>1 DEF IInv, KioskInv, Held, Offboarding, Subject
<1>6. RequestInv'
  BY <1>1, <1>2, <1>3, <1>4, RequestsKept DEF IInv
<1>7. \A f \in Employees : Held(f) => Held(f)'
  BY <1>4 DEF FacesKept
<1> QED
  BY <1>1, <1>2, <1>5, <1>6, <1>7, PageStep DEF IInv, TypeOK, BackendTypeOK

LEMMA HomeFacts ==
  ASSUME kiosk' = AtHome
  PROVE  /\ kiosk' \in [mode : Modes, session : Sessions \union {Nil}]
         /\ kiosk'.mode = "customer"
         /\ KioskInv'
<1>1. kiosk'.mode = "customer" /\ kiosk'.session = Nil
  BY DEF AtHome
<1> QED
  BY <1>1 DEF AtHome, Modes, KioskInv

LEMMA ReportDraftInv ==
  ASSUME IInv, NEW r \in Requests, ReportDraft(r)
  PROVE  IInv'
<1> DEFINE s == kiosk.session
           q == [at |-> "finalize", session |-> s, employee |-> Nil,
                 status |-> "none", found |-> template[Subject]]
<1>1. /\ kiosk.mode = "draftDelete"
      /\ scan = Nil
      /\ kiosk' = AtHome
      /\ UNCHANGED <<employee, session, restockLog, scan, template, matched>>
  BY DEF ReportDraft, PiIsFree
<1>2. /\ s \in Sessions
      /\ session[s].status # "NONE"
      /\ session[s].type = "EMPLOYEE_DRAFT_DELETE"
      /\ session[s].employee = Subject
      /\ Subject \in Employees
  BY <1>1, KioskFacts DEF IInv, KioskInv, Subject
<1>3. q \in Request
  BY <1>2 DEF Request, IInv, TypeOK
<1>4. Start(r, q.at, q.session, q.employee, q.status, q.found)
  BY DEF ReportDraft
<1>5. /\ request' \in [Requests -> Request]
      /\ request'[r] = q
      /\ \A p \in Requests : p # r => request'[p] = request[p]
  BY <1>3, <1>4, StartFacts DEF IInv
<1>6. /\ kiosk' \in [mode : Modes, session : Sessions \union {Nil}]
      /\ kiosk'.mode = "customer"
      /\ KioskInv'
  BY <1>1, HomeFacts
<1>7. \A e \in Employees : Held(e) => Held(e)'
  BY <1>1 DEF Held, Offboarding
<1>8. \A e \in Employees : Absent(e) => Absent(e)'
  BY <1>1, <1>6 DEF Absent, Enrolling
<1>9. SessionsEvolve
  BY <1>1 DEF SessionsEvolve
<1>10. ASSUME NEW e \in Employees, e = Subject
       PROVE  IF q.found THEN Held(e)' ELSE Absent(e)'
  BY <1>1, <1>6, <1>10, NilIsNoId DEF Held, Absent, Enrolling
<1>11. AwaitInv(r)'
  BY <1>1, <1>2, <1>5, <1>10 DEF AwaitInv
<1>12. HandlerFacts(r)'
  BY <1>1, <1>2, <1>5, <1>11 DEF HandlerFacts
<1>13. RequestInv'
  BY <1>1, <1>5, <1>7, <1>8, <1>9, <1>12, RequestStarted DEF IInv, FacesKept
<1> QED
  BY <1>1, <1>5, <1>6, <1>7, <1>13, PageStep DEF IInv, TypeOK

LEMMA RemoveTemplateInv ==
  ASSUME IInv, NEW r \in Requests, RemoveTemplate(r)
  PROVE  IInv'
<1> DEFINE s == kiosk.session
           q == [at |-> "offboard", session |-> s, employee |-> Nil,
                 status |-> "none", found |-> FALSE]
<1>1. /\ kiosk.mode = "offboarding"
      /\ kiosk' = AtHome
      /\ template' = [template EXCEPT ![Subject] = FALSE]
      /\ UNCHANGED <<employee, session, restockLog, scan, matched>>
  BY DEF RemoveTemplate
<1>2. /\ s \in Sessions
      /\ session[s].status # "NONE"
      /\ session[s].type = "EMPLOYEE_OFFBOARDING"
      /\ session[s].employee = Subject
      /\ Subject \in Employees
  BY <1>1, KioskFacts DEF IInv, KioskInv, Subject
<1>3. q \in Request
  BY <1>2 DEF Request
<1>4. Start(r, q.at, q.session, q.employee, q.status, q.found)
  BY DEF RemoveTemplate
<1>5. /\ request' \in [Requests -> Request]
      /\ request'[r] = q
      /\ \A p \in Requests : p # r => request'[p] = request[p]
  BY <1>3, <1>4, StartFacts DEF IInv
<1>6. /\ kiosk' \in [mode : Modes, session : Sessions \union {Nil}]
      /\ kiosk'.mode = "customer"
      /\ KioskInv'
  BY <1>1, HomeFacts
<1>7. /\ template' \in [Employees -> BOOLEAN]
      /\ \A e \in Employees : template'[e] => template[e]
      /\ \A e \in Employees : template'[e] = template[e] \/ e = Subject
  BY <1>1, <1>2 DEF IInv, TypeOK
<1>8. \A e \in Employees : Held(e) => Held(e)'
  BY <1>1, <1>2, <1>7 DEF Held, Offboarding
<1>9. \A e \in Employees : Absent(e) => Absent(e)'
  BY <1>1, <1>6, <1>7 DEF Absent, Enrolling
<1>10. SessionsEvolve
  BY <1>1 DEF SessionsEvolve
<1>11. AwaitInv(r)'
  BY <1>1, <1>2, <1>5 DEF AwaitInv
<1>12. HandlerFacts(r)'
  BY <1>1, <1>2, <1>5, <1>11 DEF HandlerFacts
<1>13. RequestInv'
  BY <1>1, <1>5, <1>8, <1>9, <1>10, <1>12, RequestStarted DEF IInv, FacesKept
<1> QED
  BY <1>1, <1>5, <1>6, <1>7, <1>8, <1>13, PageStep DEF IInv, TypeOK

-----------------------------------------------------------------------------
(* The invariant *)

LEMMA InitInv ==
  ASSUME Init
  PROVE  IInv
<1>1. /\ \A s \in Sessions : /\ session[s].status = "NONE"
                             /\ session[s].type = "none"
                             /\ session[s].employee = Nil
                             /\ session[s] \in Session
      /\ session \in [Sessions -> Session]
  BY DEF Init, BackendInit, Session
<1>2. \A r \in Requests : request[r] = Idle
  BY DEF Init, BackendInit
<1>3. ASSUME NEW e \in Employees
      PROVE  /\ employee[e] \in Employee
             /\ employee[e].faceRegistered <=> e \in Veterans
             /\ employee[e].row = IF e \in Veterans THEN "kept" ELSE "none"
             /\ ~ employee[e].offboarded
  BY DEF Init, BackendInit, Employee
<1>4. employee \in [Employees -> Employee]
  BY <1>3 DEF Init, BackendInit
<1>5. request \in [Requests -> Request]
  BY DEF Init, BackendInit, Idle, Request
<1>6. /\ restockLog \in [Sessions -> [Employees -> Nat]]
      /\ \A s \in Sessions, e \in Employees : restockLog[s][e] = 0
  BY DEF Init, BackendInit
<1>7. kiosk \in [mode : Modes, session : Sessions \union {Nil}]
  BY DEF Init, AtHome, Modes
<1>8. template \in [Employees -> BOOLEAN]
  BY DEF Init
<1>9. TypeOK
  BY <1>1, <1>4, <1>5, <1>6, <1>7, <1>8 DEF Init, TypeOK, BackendTypeOK
<1>14. SessionInv /\ OneActive
  BY <1>1 DEF SessionInv, SessionFacts, OneActive, SessionTypes
<1>10. \A e \in Employees : EmployeeFacts(e)
  <2> SUFFICES ASSUME NEW e \in Employees
               PROVE  EmployeeFacts(e)
    OBVIOUS
  <2>1. template[e] <=> e \in Veterans
    BY DEF Init
  <2>2. scan # e
    BY NilIsNoId DEF Init
  <2>3. SessionsOf(e) = {} /\ \A s \in Sessions : session[s].employee # e
    BY <1>1, NilIsNoId DEF SessionsOf
  <2> QED
    BY <1>3, <2>1, <2>2, <2>3 DEF EmployeeFacts, Held
<1>11. KioskInv
  BY DEF Init, AtHome, KioskInv
<1>12. RequestInv
  <2> SUFFICES ASSUME NEW r \in Requests
               PROVE  HandlerFacts(r)
    BY DEF RequestInv
  <2>1. request[r] = Idle /\ Idle.at = "idle"
    BY <1>2 DEF Idle
  <2> QED
    BY <2>1 DEF HandlerFacts
<1>13. BoundWasMatched /\ LoggedIsBound
  <2>1. BoundWasMatched
    BY <1>1 DEF BoundWasMatched
  <2>2. LoggedIsBound
    <3> SUFFICES ASSUME NEW s \in Sessions, NEW e \in Employees,
                        restockLog[s][e] > 0
                 PROVE  FALSE
      BY DEF LoggedIsBound
    <3> QED
      BY <1>6
  <2> QED
    BY <2>1, <2>2
<1> QED
  BY <1>9, <1>10, <1>11, <1>12, <1>13, <1>14 DEF IInv, EmployeeInv

LEMMA StutterInv ==
  ASSUME IInv, UNCHANGED vars
  PROVE  IInv'
<1>1. UNCHANGED <<employee, session, restockLog, request, piVars>>
  BY DEF vars, piVars
<1> QED
  BY <1>1, NoHandlerNoSession, SettledKeepsInv

LEMMA PortalStepInv ==
  ASSUME IInv, PortalStep, UNCHANGED piVars
  PROVE  IInv'
<1>1. CASE GetCurrent
  BY <1>1, GetCurrentInv
<1>2. ASSUME NEW s \in Sessions, CreateRestockSession(s)
      PROVE  IInv'
  BY <1>2, CreateRestockSessionInv
<1>3. ASSUME NEW r \in Requests, NEW e \in Employees,
             FindEmployeeToRegister(r, e)
      PROVE  IInv'
  BY <1>3, FindEmployeeToRegisterInv
<1>4. ASSUME NEW r \in Requests, NEW s \in Sessions,
             \/ \E next \in {"COMPLETED", "CANCELLED"} : Transition(r, s, next)
             \/ ReadRestockSession(r, s)
      PROVE  IInv'
  BY <1>4, TransitionInv, ReadRestockSessionInv
<1>5. ASSUME NEW e \in Employees,
             CreateEmployee(e) \/ DeleteEmployee(e)
      PROVE  IInv'
  BY <1>5, CreateEmployeeInv, DeleteEmployeeInv
<1>6. ASSUME NEW e \in Employees, Deactivate(e) \/ Reactivate(e)
      PROVE  IInv'
  BY <1>6, ActivityWrite DEF Deactivate, Reactivate
<1>7. ASSUME NEW s \in Sessions, NEW e \in Employees,
             StartDraftDelete(s, e) \/ StartOffboarding(s, e)
      PROVE  IInv'
  BY <1>7, StartDraftDeleteInv, StartOffboardingInv
<1> QED
  BY <1>1, <1>2, <1>3, <1>4, <1>5, <1>6, <1>7 DEF PortalStep

LEMMA HandlerStepInv ==
  ASSUME IInv, NEW r \in Requests, HandlerStep(r), UNCHANGED piVars
  PROVE  IInv'
<1>1. HandlerFacts(r) /\ request[r] \in Request
  BY DEF IInv, RequestInv, TypeOK, BackendTypeOK
<1>2. ASSUME NEW s \in Sessions, CreateFaceRegistrationSession(r, s)
      PROVE  IInv'
  BY <1>2, CreateFaceRegistrationSessionInv
<1>3. CASE BindRestockEmployee(r)
  <2>1. request[r].session \in Sessions /\ request[r].employee \in Employees
    BY <1>1, <1>3 DEF HandlerFacts, AwaitInv, BindRestockEmployee
  <2> QED
    BY <1>3, <2>1, BindRestockEmployeeInv
<1>4. CASE FinalizeDraftDelete(r)
  <2> DEFINE s == request[r].session
  <2>1. s \in Sessions /\ session[s].type = "EMPLOYEE_DRAFT_DELETE"
    BY <1>1, <1>4 DEF HandlerFacts, AwaitInv, FinalizeDraftDelete
  <2>2. session[s].employee \in Employees
    BY <2>1 DEF IInv, SessionInv, SessionFacts, SessionTypes
  <2>3. CASE request[r].found \/ ~ DeletableDraft(session[s].employee, s)
    BY <1>4, <2>3, DraftKeptInv
  <2>4. CASE ~ request[r].found /\ DeletableDraft(session[s].employee, s)
    BY <1>4, <2>2, <2>4, DraftDeletedInv
  <2> QED
    BY <2>3, <2>4
<1>5. CASE \/ WriteStatus(r)
           \/ CommitRestock(r)
           \/ CompleteFaceRegistration(r)
           \/ CompleteOffboarding(r)
           \/ Abort(r)
  BY <1>5, WriteStatusInv, CommitRestockInv, CompleteFaceRegistrationInv,
     CompleteOffboardingInv, AbortInv
<1> QED
  BY <1>2, <1>3, <1>4, <1>5 DEF HandlerStep

LEMMA NextInv ==
  ASSUME IInv, Next
  PROVE  IInv'
<1>1. CASE BackendStep /\ UNCHANGED <<kiosk, scan, template, matched>>
  <2>1. UNCHANGED piVars
    BY <1>1 DEF piVars
  <2> QED
    BY <1>1, <2>1, PortalStepInv, HandlerStepInv, ElapseInv DEF BackendStep
<1>2. ASSUME NEW s \in Sessions, AcceptSession(s)
      PROVE  IInv'
  BY <1>2, AcceptSessionInv
<1>3. ASSUME NEW s \in Sessions, NEW e \in Employees, RecogniseFace(s, e)
      PROVE  IInv'
  BY <1>3, RecogniseFaceInv
<1>4. ASSUME NEW s \in Sessions, NEW e \in Employees, NEW r \in Requests,
             FaceAuthenticate(r, s, e)
      PROVE  IInv'
  BY <1>4, FaceAuthenticateInv
<1>5. CASE \/ Leave \/ FindTemplate \/ VerifySession \/ BeginScan \/ BusyScan
           \/ ScanSucceeds \/ ScanFails
  BY <1>5, LeaveInv, FindTemplateInv, VerifySessionInv, BeginScanInv,
     BusyScanInv, ScanSucceedsInv, ScanFailsInv
<1>6. ASSUME NEW r \in Requests,
             SyncRegistration(r) \/ ReportDraft(r) \/ RemoveTemplate(r)
      PROVE  IInv'
  BY <1>6, SyncRegistrationInv, ReportDraftInv, RemoveTemplateInv
<1> QED
  BY <1>1, <1>2, <1>3, <1>4, <1>5, <1>6 DEF Next

\* IInv is inductive, so it holds in every state of the specification.
THEOREM Invariance == Spec => []IInv
<1>1. Init => IInv
  BY InitInv
<1>2. IInv /\ [Next]_vars => IInv'
  BY NextInv, StutterInv
<1> QED
  BY <1>1, <1>2, PTL DEF Spec

\* Every variable keeps its type.
THEOREM TypeCorrect == Spec => []TypeOK
<1>1. IInv => TypeOK
  BY DEF IInv
<1> QED
  BY <1>1, Invariance, PTL

\* What was deleted was an unused draft, and the Pi holds no face of it: no
\* interleaving of reports, scans, registrations and deletions leaves a
\* template without a record (finalizeDraftDelete, deleteEmployee).
THEOREM DraftsOnly == Spec => []DeletedWasAnUnusedDraft
<1>1. ASSUME IInv
      PROVE  DeletedWasAnUnusedDraft
  <2> SUFFICES ASSUME NEW e \in Employees, employee[e].row = "deleted"
               PROVE  /\ ~ template[e]
                      /\ ~ employee[e].faceRegistered
                      /\ ~ HasRestocked(e)
    BY DEF DeletedWasAnUnusedDraft
  <2>1. /\ ~ employee[e].faceRegistered
        /\ SessionsOf(e) = {}
        /\ ~ template[e]
    BY <1>1 DEF IInv, EmployeeInv, EmployeeFacts
  <2>2. ~ HasRestocked(e)
    <3> SUFFICES ASSUME NEW s \in Sessions, restockLog[s][e] > 0
                 PROVE  FALSE
      BY DEF HasRestocked
    <3>1. session[s].type = "RESTOCK_AUTH" /\ session[s].employee = e
      BY <1>1 DEF IInv, LoggedIsBound
    <3>2. session[s].status # "DELETED"
      BY <1>1, <3>1 DEF IInv, SessionInv, SessionFacts
    <3> QED
      BY <2>1, <3>1, <3>2 DEF SessionsOf
  <2> QED
    BY <2>1, <2>2
<1> QED
  BY <1>1, Invariance, PTL

\* A restock is credited only to the employee the session is bound to, whose
\* face the Pi recognised for that session (bindRestockEmployee, commitRestock).
THEOREM CreditWhereDue == Spec => []RestockIsAttributed
<1>1. IInv => RestockIsAttributed
  BY DEF IInv, RestockIsAttributed, LoggedIsBound, BoundWasMatched
<1> QED
  BY <1>1, Invariance, PTL

\* The backend never believes in a face that the Pi does not hold, unless an
\* offboarding has begun to remove it (completeFaceRegistration,
\* finalizeDraftDelete, completeOffboarding).
THEOREM FacesAreReal == Spec => []RegisteredFaceIsOnThePi
<1>1. ASSUME IInv
      PROVE  RegisteredFaceIsOnThePi
  <2> SUFFICES ASSUME NEW e \in Employees, employee[e].faceRegistered,
                      ~ template[e]
               PROVE  \E s \in SessionsOf(e) :
                        session[s].type = "EMPLOYEE_OFFBOARDING"
    BY DEF RegisteredFaceIsOnThePi
  <2>1. Offboarding(e)
    BY <1>1 DEF IInv, EmployeeInv, EmployeeFacts, Held
  <2>2. PICK s \in Sessions : /\ session[s].type = "EMPLOYEE_OFFBOARDING"
                              /\ session[s].employee = e
    BY <2>1 DEF Offboarding
  <2>3. session[s].status # "DELETED"
    BY <1>1, <2>2 DEF IInv, SessionInv, SessionFacts
  <2> QED
    BY <2>2, <2>3 DEF SessionsOf
<1> QED
  BY <1>1, Invariance, PTL

\* An offboarded employee's row is never written again with another value:
\* every handler that writes an employee asks for a current one, or writes
\* the offboarded row once more (assertEmployeeNotOffboarded,
\* completeFaceRegistration, completeOffboarding).
THEOREM OffboardedForGood == Spec => OffboardingIsFinal
<1>1. ASSUME IInv, Next, NEW e \in Employees, employee[e].offboarded
      PROVE  employee'[e] = employee[e]
  <2>1. /\ employee \in [Employees -> Employee]
        /\ employee[e] = [row |-> "kept", isActive |-> FALSE,
                          faceRegistered |-> FALSE, offboarded |-> TRUE]
        /\ ~ Current(e)
        /\ employee[e].row # "none"
    BY <1>1 DEF IInv, TypeOK, BackendTypeOK, Employee, EmployeeInv,
                EmployeeFacts, Current
  <2>2. CASE PortalStep
    <3>1. ASSUME NEW f \in Employees,
                 \/ CreateEmployee(f)
                 \/ Deactivate(f)
                 \/ Reactivate(f)
                 \/ DeleteEmployee(f)
                 \/ \E s \in Sessions : StartDraftDelete(s, f)
                 \/ \E s \in Sessions : StartOffboarding(s, f)
          PROVE  employee'[e] = employee[e]
      BY <2>1, <3>1 DEF CreateEmployee, Deactivate, Reactivate,
         DeleteEmployee, StartDraftDelete, StartOffboarding, Current
    <3>2. CASE \/ GetCurrent
               \/ \E s \in Sessions : CreateRestockSession(s)
               \/ \E r \in Requests, f \in Employees :
                    FindEmployeeToRegister(r, f)
               \/ \E r \in Requests, s \in Sessions :
                    \/ \E next \in {"COMPLETED", "CANCELLED"} :
                         Transition(r, s, next)
                    \/ ReadRestockSession(r, s)
      BY <3>2 DEF GetCurrent, CreateRestockSession, FindEmployeeToRegister,
         Transition, ReadRestockSession
    <3> QED
      BY <2>2, <3>1, <3>2 DEF PortalStep
  <2>3. ASSUME NEW r \in Requests, HandlerStep(r)
        PROVE  employee'[e] = employee[e]
    <3>1. CASE CompleteFaceRegistration(r)
      BY <2>1, <3>1 DEF CompleteFaceRegistration, MayRegister, Current
    <3>2. CASE CompleteOffboarding(r)
      BY <2>1, <3>2 DEF CompleteOffboarding
    <3>3. CASE FinalizeDraftDelete(r)
      BY <2>1, <3>3 DEF FinalizeDraftDelete, Current
    <3>4. CASE \/ \E s \in Sessions : CreateFaceRegistrationSession(r, s)
               \/ WriteStatus(r)
               \/ BindRestockEmployee(r)
               \/ CommitRestock(r)
               \/ Abort(r)
      BY <3>4 DEF CreateFaceRegistrationSession, WriteStatus,
         BindRestockEmployee, CommitRestock, Abort
    <3> QED
      BY <2>3, <3>1, <3>2, <3>3, <3>4 DEF HandlerStep
  <2>4. ASSUME NEW s \in Sessions, Elapse(s)
        PROVE  employee'[e] = employee[e]
    BY <2>4 DEF Elapse
  <2>5. CASE ~ BackendStep
    <3>1. CASE \E s \in Sessions :
                 \/ AcceptSession(s)
                 \/ \E f \in Employees :
                      \/ RecogniseFace(s, f)
                      \/ \E r \in Requests : FaceAuthenticate(r, s, f)
      BY <3>1 DEF AcceptSession, RecogniseFace, FaceAuthenticate,
         AuthenticateEmployee, backendVars
    <3>2. CASE \/ Leave \/ FindTemplate \/ VerifySession \/ BeginScan
               \/ BusyScan \/ ScanSucceeds \/ ScanFails
      BY <3>2 DEF Leave, FindTemplate, VerifySession, BeginScan, BusyScan,
         ScanSucceeds, ScanFails, backendVars
    <3>3. CASE \E r \in Requests :
                 SyncRegistration(r) \/ ReportDraft(r) \/ RemoveTemplate(r)
      BY <3>3 DEF SyncRegistration, ReadRegistrationSession, ReportDraft,
         RemoveTemplate
    <3> QED
      BY <1>1, <2>5, <3>1, <3>2, <3>3 DEF Next
  <2> QED
    BY <2>2, <2>3, <2>4, <2>5 DEF BackendStep
<1>2. ASSUME IInv, [Next]_vars
      PROVE  [\A e \in Employees :
                employee[e].offboarded => employee'[e] = employee[e]]_vars
  BY <1>1, <1>2
<1> QED
  BY <1>2, Invariance, PTL DEF Spec, OffboardingIsFinal
=============================================================================
