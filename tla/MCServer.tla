------------------------------ MODULE MCServer ------------------------------
(***************************************************************************)
(* What lives as long as the server, in one run: a client's session, the   *)
(* runtime with its repository, executors and calls, and a seqlock that    *)
(* its threads share.  A session asks the runtime only through infer,      *)
(* which each of them models on its side, so they share no state: a        *)
(* behaviour is about one of them, the subject, and the others rest in     *)
(* their initial states, where their fairness asks for nothing.            *)
(***************************************************************************)
EXTENDS Session, Runtime, Seqlock

VARIABLE subject

ServerInit ==
    /\ subject \in {"session", "runtime", "seqlock"}
    /\ SessionInit /\ RuntimeInit /\ SeqlockInit

ServerNext ==
    \/ subject = "session" /\ SessionNext /\ UNCHANGED <<subject, vars, seqlockVars>>
    \/ subject = "runtime" /\ RuntimeNext /\ UNCHANGED <<subject, sessionVars, seqlockVars>>
    \/ subject = "seqlock" /\ SeqlockNext /\ UNCHANGED <<subject, sessionVars, vars>>

ServerSpec ==
    /\ ServerInit /\ [][ServerNext]_<<subject, sessionVars, vars, seqlockVars>>
    /\ SessionFairness /\ RuntimeFairness /\ SeqlockFairness
=============================================================================
