----------------------------- MODULE StaffKiosk -----------------------------
(***************************************************************************)
(* The staff workflows end to end: the backend of module StaffSession, the *)
(* kiosk page that polls for the current session and works through it      *)
(* (HomePage and EmployeeFaceRegistration), and the face service of the    *)
(* Raspberry Pi (pi_unlock_service.py), which alone holds the templates    *)
(* and runs one face operation at a time.                                  *)
(*                                                                         *)
(* A call to the Pi is served when the kiosk makes it (both run on the     *)
(* Pi); a registration scan takes time and goes on when the page that      *)
(* asked for it is gone.  A call to the backend is a handler in request,   *)
(* served later or never.  The page may leave a workflow at any time: the  *)
(* session ends, a customer starts a payment, or the browser reloads.      *)
(***************************************************************************)
EXTENDS StaffSession

VARIABLES
  kiosk,     \* what the page shows and the session it works on
  scan,      \* the employee whose face is being registered, if any
  template,  \* whether the Pi holds a template of an employee
  matched    \* the Pi's signed statements: this employee's face, this session

vars == <<employee, session, restockLog, request, kiosk, scan, template,
          matched>>

Modes == {"customer", "registration", "verified", "scanning", "sync",
          "draftDelete", "offboarding"}

AtHome == [mode |-> "customer", session |-> Nil]

TypeOK ==
  /\ BackendTypeOK
  /\ kiosk \in [mode : Modes, session : Sessions \union {Nil}]
  /\ scan \in Employees \union {Nil}
  /\ template \in [Employees -> BOOLEAN]
  /\ matched \in SUBSET (Sessions \X Employees)

Init ==
  /\ BackendInit
  /\ kiosk = AtHome
  /\ scan = Nil
  /\ template = [e \in Employees |-> e \in Veterans]
  /\ matched = {}

-----------------------------------------------------------------------------
(* The page *)

Show(mode) == kiosk' = [kiosk EXCEPT !.mode = mode]

\* The employee of the session the page works on.
Subject == session[kiosk.session].employee

\* Faulty: answers beside a running scan.
PiIsFree_always == TRUE

\* The face operations share one lock and answer BUSY while it is held.
PiIsFree == scan = Nil

\* Faulty: shows the session's type.
ModeFor_type(type) == type

\* decideKioskSessionAction.  A restock session is worked through without
\* the page's state.
ModeFor(type) ==
  CASE type = "FACE_REGISTRATION"     -> "registration"
    [] type = "EMPLOYEE_DRAFT_DELETE" -> "draftDelete"
    [] type = "EMPLOYEE_OFFBOARDING"  -> "offboarding"
    [] type = "RESTOCK_AUTH"          -> "customer"

AcceptSession(s) ==
  /\ kiosk = AtHome
  /\ Live(s)
  /\ session[s].type # "RESTOCK_AUTH"
  /\ kiosk' = [mode |-> ModeFor(session[s].type), session |-> s]
  /\ UNCHANGED <<backendVars, scan, template, matched>>

Leave ==
  /\ kiosk # AtHome
  /\ kiosk' = AtHome
  /\ UNCHANGED <<backendVars, scan, template, matched>>

\* The registration screen asks the Pi first: a template that is already
\* there only has to be synchronised.
FindTemplate ==
  /\ kiosk.mode = "registration"
  /\ PiIsFree
  /\ template[Subject]
  /\ Show("sync")
  /\ UNCHANGED <<backendVars, scan, template, matched>>

\* capture() asks the backend whether the session is still the current one.
VerifySession ==
  /\ kiosk.mode = "registration"
  /\ Live(kiosk.session)
  /\ Show("verified")
  /\ UNCHANGED <<backendVars, scan, template, matched>>

BeginScan ==
  /\ kiosk.mode = "verified"
  /\ PiIsFree
  /\ scan' = Subject
  /\ Show("scanning")
  /\ UNCHANGED <<backendVars, template, matched>>

BusyScan ==
  /\ kiosk.mode = "verified"
  /\ ~ PiIsFree
  /\ Show("registration")
  /\ UNCHANGED <<backendVars, scan, template, matched>>

\* The page learns the outcome only if it still waits for it.
ScanShows(mode) ==
  kiosk' = IF kiosk.mode = "scanning" THEN [kiosk EXCEPT !.mode = mode] ELSE kiosk

\* The template is saved, or was there already.
ScanSucceeds ==
  /\ scan # Nil
  /\ template' = [template EXCEPT ![scan] = TRUE]
  /\ scan' = Nil
  /\ ScanShows("sync")
  /\ UNCHANGED <<backendVars, matched>>

\* No face, not live, another employee's face, cancelled, or the Pi restarts.
ScanFails ==
  /\ scan # Nil
  /\ scan' = Nil
  /\ ScanShows("registration")
  /\ UNCHANGED <<backendVars, template, matched>>

\* Faulty: tells the backend as soon as the scan has begun.
SyncModes_early == {"scanning", "sync"}

\* The screens from which the page tells the backend that the face is known.
SyncModes == {"sync"}

SyncRegistration(r) ==
  /\ kiosk.mode \in SyncModes
  /\ ReadRegistrationSession(r, kiosk.session)
  /\ UNCHANGED <<kiosk, scan, template, matched>>

\* The Pi's answer goes to the backend.
ReportDraft(r) ==
  /\ kiosk.mode = "draftDelete"
  /\ PiIsFree
  /\ Start(r, "finalize", kiosk.session, Nil, "none", template[Subject])
  /\ kiosk' = AtHome
  /\ UNCHANGED <<employee, session, restockLog, scan, template, matched>>

RemoveTemplate(r) ==
  /\ kiosk.mode = "offboarding"
  /\ PiIsFree
  /\ template' = [template EXCEPT ![Subject] = FALSE]
  /\ Start(r, "offboard", kiosk.session, Nil, "none", FALSE)
  /\ kiosk' = AtHome
  /\ UNCHANGED <<employee, session, restockLog, scan, matched>>

(* The restock workflow: the kiosk asks the Pi for the face of a restock
   session, and whoever holds the Pi's statement may authenticate. *)

RecogniseFace(s, e) ==
  /\ PiIsFree
  /\ template[e]
  /\ session[s].type = "RESTOCK_AUTH"
  /\ matched' = matched \union {<<s, e>>}
  /\ UNCHANGED <<backendVars, kiosk, scan, template>>

\* Faulty: does not compare the session of the statement.
Certified_anySession(s, e) == \E o \in Sessions : <<o, e>> \in matched

\* verifyFaceAuthorization
Certified(s, e) == <<s, e>> \in matched

FaceAuthenticate(r, s, e) ==
  /\ Certified(s, e)
  /\ AuthenticateEmployee(r, s, e)
  /\ UNCHANGED <<kiosk, scan, template, matched>>

-----------------------------------------------------------------------------

Next ==
  \/ BackendStep /\ UNCHANGED <<kiosk, scan, template, matched>>
  \/ \E s \in Sessions :
       \/ AcceptSession(s)
       \/ \E e \in Employees :
            \/ RecogniseFace(s, e)
            \/ \E r \in Requests : FaceAuthenticate(r, s, e)
  \/ Leave \/ FindTemplate \/ VerifySession \/ BeginScan \/ BusyScan
  \/ ScanSucceeds \/ ScanFails
  \/ \E r \in Requests : SyncRegistration(r) \/ ReportDraft(r) \/ RemoveTemplate(r)

Spec == Init /\ [][Next]_vars

-----------------------------------------------------------------------------
(* Safety *)

\* A deleted record was an unused draft, and the Pi neither holds nor ever
\* again makes a template of it, although its absence was reported before the
\* deletion and registrations are started, cancelled and abandoned meanwhile
\* (finalizeDraftDelete against the kiosk and the Pi's face lock).
DeletedWasAnUnusedDraft ==
  \A e \in Employees :
    employee[e].row = "deleted" =>
      /\ ~ template[e]
      /\ ~ employee[e].faceRegistered
      /\ ~ HasRestocked(e)

\* An offboarded employee stays so: no handler that read an earlier row or
\* session gives access or a registered face back (completeFaceRegistration,
\* finalizeDraftDelete and updateEmployee against completeOffboarding).
OffboardingIsFinal ==
  [][\A e \in Employees :
       employee[e].offboarded => employee'[e] = employee[e]]_vars

\* A restock is logged for the employee the session is bound to, and only
\* after the Pi recognised that face for that very session.
RestockIsAttributed ==
  \A s \in Sessions, e \in Employees :
    restockLog[s][e] > 0 => session[s].employee = e /\ <<s, e>> \in matched

\* The backend believes a face registered only while the Pi holds the
\* template, unless an offboarding has begun to remove it.
RegisteredFaceIsOnThePi ==
  \A e \in Employees :
    employee[e].faceRegistered =>
      \/ template[e]
      \/ \E s \in SessionsOf(e) : session[s].type = "EMPLOYEE_OFFBOARDING"

\* project-spec.md line 111: "An expired, cancelled, completed, missing,
\* wrong-type, or wrong-machine session cannot authorize Restock Mode or a
\* restock commit."
EndedSessionAuthorizesNothing ==
  [][\A s \in Sessions :
       session[s].status \in Ended =>
         \A e \in Employees : restockLog'[s][e] = restockLog[s][e]]_vars

\* project-spec.md line 167: offboarding "removes the Pi template", and
\* "Normal employee APIs cannot reactivate, edit, re-register, offboard again,
\* or draft-delete an offboarded record".
OffboardedIsNotReregistered ==
  \A e \in Employees : employee[e].offboarded => ~ template[e]
=============================================================================
