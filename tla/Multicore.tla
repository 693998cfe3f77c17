----------------------------- MODULE Multicore -----------------------------
(***************************************************************************)
(* The parts of the nRF54L15's inter-core layer side by side: the lock and *)
(* mutex of CrossCore, the meeting places of CoreMeeting.  They share no   *)
(* state; a run moves one part, picked in the initial state.               *)
(***************************************************************************)
EXTENDS CrossCore, CoreMeeting

CONSTANT Parts  \* the parts to move: "locks", "barrier", "rendezvous", "mail", "tables"

VARIABLE part

coreVars == <<part, vars, meetVars>>

MulticoreInit == part \in Parts /\ Init /\ MeetInit

Meeting == \/ part = "barrier" /\ BarrierNext
           \/ part = "rendezvous" /\ RendezvousNext
           \/ part = "mail" /\ MailNext
           \/ part = "tables" /\ TableNext

MulticoreNext == \/ part = "locks" /\ Next /\ UNCHANGED <<part, meetVars>>
                 \/ Meeting /\ UNCHANGED <<part, vars>>

\* A core executes the calls it has entered.
Locks(c) == part = "locks" /\ CoreStep(c) /\ UNCHANGED <<part, meetVars>>
Meets(c) == /\ part = "rendezvous" /\ RendezvousGoesOn(c)
            /\ UNCHANGED <<part, vars, barrierVars, mailVars, tableVars>>

MulticoreSpec == /\ MulticoreInit /\ [][MulticoreNext]_coreVars
                 /\ \A c \in Cores : WF_coreVars(Locks(c))
                 /\ \A c \in Parties : WF_coreVars(Meets(c))
=============================================================================
