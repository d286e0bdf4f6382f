----------------------------- MODULE MCLibrary -----------------------------
(***************************************************************************)
(* The components that the server's threads use one at a time, the ring    *)
(* between two threads and the work-stealing deque, checked in one run on  *)
(* small instances.  They share no state: a behaviour is about one of      *)
(* them, the subject, and the others rest.                                 *)
(***************************************************************************)
EXTENDS Arena, Slab, Actor, Codec, LatencyHistogram, TorchBackend, ModelRepository,
        TimerWheel, SpscQueue, WorkStealingDeque

VARIABLE subject

memory == <<arenaVars, slabVars, actorVars>>
models_and_metrics == <<histogramVars, torchVars, repositoryVars>>
messaging == <<codecVars, wheelVars, spscVars, dequeVars>>
vars == <<subject, memory, models_and_metrics, messaging>>

Subjects == {"arena", "slab", "actor", "codec", "histogram", "torch", "repository",
             "wheel", "spsc", "deque"}

Init ==
    /\ subject \in Subjects
    /\ ArenaInit /\ SlabInit /\ ActorInit /\ CodecInit /\ HistogramInit /\ TorchInit
    /\ RepositoryInit /\ WheelInit /\ SpscInit /\ DequeInit

Next ==
    \/ /\ subject = "arena" /\ ArenaNext
       /\ UNCHANGED <<subject, slabVars, actorVars, models_and_metrics, messaging>>
    \/ /\ subject = "slab" /\ SlabNext
       /\ UNCHANGED <<subject, arenaVars, actorVars, models_and_metrics, messaging>>
    \/ /\ subject = "actor" /\ ActorNext
       /\ UNCHANGED <<subject, arenaVars, slabVars, models_and_metrics, messaging>>
    \/ /\ subject = "histogram" /\ HistogramNext
       /\ UNCHANGED <<subject, memory, torchVars, repositoryVars, messaging>>
    \/ /\ subject = "torch" /\ TorchNext
       /\ UNCHANGED <<subject, memory, histogramVars, repositoryVars, messaging>>
    \/ /\ subject = "repository" /\ RepositoryNext
       /\ UNCHANGED <<subject, memory, histogramVars, torchVars, messaging>>
    \/ /\ subject = "codec" /\ CodecNext
       /\ UNCHANGED <<subject, memory, models_and_metrics, wheelVars, spscVars, dequeVars>>
    \/ /\ subject = "wheel" /\ WheelNext
       /\ UNCHANGED <<subject, memory, models_and_metrics, codecVars, spscVars, dequeVars>>
    \/ /\ subject = "spsc" /\ SpscNext
       /\ UNCHANGED <<subject, memory, models_and_metrics, codecVars, wheelVars, dequeVars>>
    \/ /\ subject = "deque" /\ DequeNext
       /\ UNCHANGED <<subject, memory, models_and_metrics, codecVars, wheelVars, spscVars>>

Spec == Init /\ [][Next]_vars

\* Timers, and thieves, are told apart by nothing but their names.
Symmetry == Permutations(Timers) \cup Permutations(Thieves)

MCShapes == {<<>>, <<1>>, <<2>>, <<3, 2>>, <<1, 3>>, <<0, 2>>}
=============================================================================
