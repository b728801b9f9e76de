----------------------------- MODULE MCServices -----------------------------
(***************************************************************************)
(* Three components that share no state with each other, checked in one    *)
(* run: a behaviour exercises the one its initial state names.             *)
(***************************************************************************)
EXTENDS UserAccounts, WorkerRegister, WarnTransport, TLC

CONSTANTS a1, a2, a3, a4, s1, n1, n2, e1, e2, p1, p2,   \* accounts
          h1, d1, d2, d3,                               \* worker register
          w1, w2, k1                                    \* transport of alarms

MCName == (a1 :> n1) @@ (a2 :> n1) @@ (a3 :> n2) @@ (a4 :> Malformed)
MCEmail == (a1 :> e1) @@ (a2 :> e2) @@ (a3 :> e2) @@ (a4 :> e1)
MCPassword == (a1 :> p1) @@ (a2 :> p2) @@ (a3 :> p2) @@ (a4 :> p1)
MCIp == h1 :> "i1"

VARIABLE part   \* the component that is exercised

vars == <<part, accountVars, registerVars, transportVars>>

Init ==
  /\ part \in {"accounts", "register", "transport"}
  /\ AccountsInit /\ RegisterInit /\ TransportInit

Next ==
  /\ UNCHANGED part
  /\ \/ part = "accounts" /\ AccountsNext
        /\ UNCHANGED <<registerVars, transportVars>>
     \/ part = "register" /\ RegisterNext
        /\ UNCHANGED <<accountVars, transportVars>>
     \/ part = "transport" /\ TransportNext
        /\ UNCHANGED <<accountVars, registerVars>>

(* A component that is not exercised rests in its initial state, in which none of
   the actions that are fair is enabled. *)
Spec == Init /\ [][Next]_vars /\ RegisterFairness /\ TransportFairness
=============================================================================
