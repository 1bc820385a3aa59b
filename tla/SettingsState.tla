---------------------------- MODULE SettingsState ----------------------------
(***************************************************************************)
(* state/settings.go and services/coalitions.go: the coalition list the    *)
(* administrator edits while clients log in and change coalition.          *)
(*                                                                         *)
(* The list is a Go slice edited under SettingsState's lock.  A coalition  *)
(* is its name; UpdateCoalition replaces the other fields of an entry and  *)
(* so is invisible here.  Removing by value means the whole struct must    *)
(* match: a caller holding an outdated copy asks for an absent element,    *)
(* which RemoveCoalition's argument covers.                                *)
(*                                                                         *)
(* History: configured remembers every name that was ever in the list.     *)
(***************************************************************************)
EXTENDS Naturals, Sequences

CONSTANTS
  Coalition,        \* coalition names, configured or not
  MaxCoalitions     \* bound: the list is not grown beyond this length

ASSUME MaxCoalitionsAssumption == MaxCoalitions \in Nat

VARIABLES coalitions, configured

settingsVars == <<coalitions, configured>>

Names(list) == {list[i] : i \in DOMAIN list}

SettingsTypeOK ==
  /\ coalitions \in Seq(Coalition)
  /\ configured \in SUBSET Coalition

SettingsInit ==
  /\ coalitions \in {<<>>} \cup {<<c>> : c \in Coalition}
  /\ configured = Names(coalitions)

\* Mutant: the requested coalition is taken as it comes.
AnyCoalition(c) == TRUE

DoesCoalitionExist(c) == c \in Names(coalitions)

\* utils.Remove: a list of at most one element becomes empty whatever was
\* asked for; otherwise the last element takes the place of the first match.
Remove(list, e) ==
  LET at == {i \in DOMAIN list : list[i] = e}
      i  == CHOOSE k \in at : \A j \in at : k <= j
  IN IF Len(list) <= 1 THEN <<>>
     ELSE IF at = {} THEN list
     ELSE SubSeq([list EXCEPT ![i] = list[Len(list)]], 1, Len(list) - 1)

AddCoalition(c) ==
  /\ Len(coalitions) < MaxCoalitions
  /\ coalitions' = Append(coalitions, c)
  /\ configured' = configured \cup {c}

RemoveCoalition(c) ==
  /\ coalitions' = Remove(coalitions, c)
  /\ UNCHANGED configured

SettingsNext == \E c \in Coalition : AddCoalition(c) \/ RemoveCoalition(c)
=============================================================================
