------------------------------ MODULE MCServer ------------------------------
(***************************************************************************)
(* Two parts of the Redis server for TLC: its channels (PubSub) and the    *)
(* memory it accounts for (MemoryLimit).  They share no state: a behaviour *)
(* is one of one part.                                                     *)
(***************************************************************************)
EXTENDS PubSub, MemoryLimit

VARIABLE part

MCInit == part \in {"channels", "memory"} /\ Init /\ MemInit

allVars == <<part, vars, memVars>>

OnChannels(A) == part = "channels" /\ A /\ UNCHANGED <<part, memVars>>

MCNext ==
  \/ OnChannels(Next)
  \/ part = "memory" /\ MemNext /\ UNCHANGED <<part, vars>>

\* The fairness of PubSub's FairSpec.
MCFairness == \A c \in Clients :
  SF_allVars(OnChannels(Run(c))) /\ WF_allVars(OnChannels(broken[c] /\ Disconnect(c)))

MCSpec == MCInit /\ [][MCNext]_allVars /\ MCFairness
=============================================================================
