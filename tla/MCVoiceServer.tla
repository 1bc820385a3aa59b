---------------------------- MODULE MCVoiceServer ----------------------------
(* A small instance of VoiceServer for TLC. *)
EXTENDS VoiceServer, TLC

On(f)  == [freq |-> f, enabled |-> TRUE]
Off(f) == [freq |-> f, enabled |-> FALSE]

\* No radio, or one that is on, or two on one frequency of which one is off; all
\* on frequencies that are relayed.
MCRadioInput ==
  {FreshRadio} \cup
  {[radios |-> r, muted |-> FALSE] :
     r \in UNION {{<<On(f)>>, <<On(f), Off(f)>>, <<Off(f), On(f)>>} :
                    f \in Freq \ TestFreq}}

\* The addresses of Ref are told apart by CHOOSE.
Symmetry == Permutations(Guid) \cup Permutations(Call)
=============================================================================
