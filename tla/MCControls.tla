----------------------------- MODULE MCControls ------------------------------
(***************************************************************************)
(* What the platform admits and whom it lets in: trading controls, the     *)
(* financial halts, the freezes, halts and holds of the operations app,    *)
(* and registration.  They keep their rows in tables of their own and      *)
(* share no state, so one run explores each of them for itself: "plane" is *)
(* the one that a behaviour is about.  Registration has two: "codes", with *)
(* no mail worker up, and "mails", with two workers and one registration.  *)
(***************************************************************************)
EXTENDS FinancialHalts, TradingControls, OperatorActions, Registration, TLC

CONSTANTS op, fm1, fm2, sm, pa1, pa2, p1,
          MailsChallenges   \* bound: challenges in "mails"

\* An operator and two managers of the financial boundary.
MCHaltRoles == (op :> {"financial_operations"}) @@ (fm1 :> {"financial_manager"})
               @@ (fm2 :> {"financial_manager", "financial_operations"})

\* A security manager and two platform administrators of the operations app.
MCManagerRoles == (sm :> {"security_manager"}) @@ (pa1 :> {"platform_admin"})
                  @@ (pa2 :> {"platform_admin"})

\* The bounds of "codes" and "mails": what races with a register request is in
\* "codes", wrong guesses too, and in "mails" the one registration is asked for once.
CodesOnly == UNCHANGED mailer
MailsOnly == /\ Len(challenge') <= MailsChallenges
             /\ \A p \in RegIds \ {p1} : pending'[p] = NoReg
             /\ \A i \in DOMAIN challenge' : challenge'[i].guesses = 0 \/ challenge'[i].status = "consumed"
             /\ pending'[p1] # NoReg => registering' = [c \in Clients |-> AtRest]

VARIABLE plane

controlsVars == <<plane, vars, controlVars, operatorVars, registrationVars>>

ControlsInit ==
    /\ plane \in {"financial", "trading", "operations", "codes", "mails"}
    /\ Init /\ ControlInit /\ OperatorInit /\ RegistrationInit /\ mailEnabled
    /\ plane # "codes" => existing = {}

ControlsNext ==
    /\ UNCHANGED plane
    /\ \/ /\ plane = "financial"  /\ Next
          /\ UNCHANGED <<controlVars, operatorVars, registrationVars>>
       \/ /\ plane = "trading"    /\ ControlNext
          /\ UNCHANGED <<vars, operatorVars, registrationVars>>
       \/ /\ plane = "operations" /\ OperatorNext
          /\ UNCHANGED <<vars, controlVars, registrationVars>>
       \/ /\ plane \in {"codes", "mails"} /\ RegistrationNext
          /\ IF plane = "codes" THEN CodesOnly ELSE MailsOnly
          /\ UNCHANGED <<vars, controlVars, operatorVars>>

ControlsSpec == ControlsInit /\ [][ControlsNext]_controlsVars

Symmetry == Permutations({pa1, pa2}) \cup Permutations(ActionIds) \cup Permutations(CommandKeys)
            \cup Permutations(Mailers)
=============================================================================
