------------------------------ MODULE Sessions -------------------------------
(***************************************************************************)
(* What the control server promises about sessions, without handlers,      *)
(* locks, pointers or races: a client guid has at most one session; the    *)
(* session is opened with the role the login granted; from then on its     *)
(* role stays between Member and that grant, or stays Guest; its coalition *)
(* is one the administrator configured.                                    *)
(***************************************************************************)
EXTENDS Naturals

CONSTANTS
  Guid, Coalition,
  Role,          \* role numbers; 0 is Guest
  NoSession

VARIABLES
  session,      \* guid -> its session, or NoSession
  configured    \* coalition names configured so far

sessionVars == <<session, configured>>

Session == [coalition : Coalition, role : Role, granted : Role]

Init ==
  /\ session = [g \in Guid |-> NoSession]
  /\ configured \in SUBSET Coalition

Configure ==
  /\ \E c \in Coalition : configured' = configured \cup {c}
  /\ UNCHANGED session

Set(g, s) ==
  /\ session' = [session EXCEPT ![g] = s]
  /\ UNCHANGED configured

\* A login, also of a client that has a session: the new one replaces it.
Open(g) ==
  \E c \in configured, granted \in Role :
    Set(g, [coalition |-> c, role |-> granted, granted |-> granted])

Move(g) ==
  /\ session[g] # NoSession
  /\ \E c \in configured : Set(g, [session[g] EXCEPT !.coalition = c])

SwapRole(g) ==
  /\ session[g] # NoSession
  /\ \E role \in Role :
       /\ 1 <= role /\ role <= session[g].granted
       /\ Set(g, [session[g] EXCEPT !.role = role])

Close(g) == Set(g, NoSession)

CloseAll ==
  /\ session' = [g \in Guid |-> NoSession]
  /\ UNCHANGED configured

Next ==
  \/ \E g \in Guid : Open(g) \/ Move(g) \/ SwapRole(g) \/ Close(g)
  \/ Configure
  \/ CloseAll

Spec == Init /\ [][Next]_sessionVars
=============================================================================
