---------------------------- MODULE TorchBackend ----------------------------
(***************************************************************************)
(* src/inference/torch_backend.cpp: the map of loaded models, inference on *)
(* one request and on a batch that is concatenated, run once and cut up    *)
(* again.  A tensor is its shape and the names of its rows: what a row     *)
(* holds does not matter, where it ends up does.  LibTorch (cat, chunk,    *)
(* forward) is external.                                                   *)
(***************************************************************************)
EXTENDS Integers, Sequences, FiniteSetsExt, SequencesExt, Functions

CONSTANTS Shapes,       \* shapes of a request's input
          BufferSizes,  \* sizes of a request's output buffer, in elements
          MaxBatch      \* bound on the batch

ModelIds == {"m1", "m2"}

ASSUME TorchAssumption ==
    Shapes \subseteq Seq(Nat) /\ BufferSizes \subseteq Nat /\ MaxBatch \in Nat

VARIABLES models,       \* models_: "none", or what forward does
          inference     \* the last call of infer_batch: batch, model and responses

torchVars == <<models, inference>>

TorchInit ==
    /\ models = [id \in ModelIds |-> "none"]
    /\ inference = [batch |-> <<>>, model |-> "none", responses |-> <<>>]

\* A second load of a name changes nothing; without a path forward is relu(2x + 1).
TorchLoad(id) ==
    /\ models[id] = "none"
    /\ \E kind \in {"relu", "module", "throws"} : models' = [models EXCEPT ![id] = kind]
    /\ UNCHANGED inference

TorchUnload(id) ==
    /\ models[id] # "none"
    /\ models' = [models EXCEPT ![id] = "none"]
    /\ UNCHANGED inference

Product(s) == FoldLeft(LAMBDA a, b : a * b, 1, s)
Rows(shape) == IF shape = <<>> THEN 1 ELSE Head(shape)

\* from_blob(...).clone(): request i's rows.
Input(request, i) == [shape |-> request.shape,
                      rows |-> [r \in 1 .. Rows(request.shape) |-> <<i, r>>]]

\* torch::cat along dimension 0: not for scalars, and only for equal trailing dimensions.
CanCat(tensors) ==
    \A i \in DOMAIN tensors : /\ tensors[i].shape # <<>>
                              /\ Tail(tensors[i].shape) = Tail(tensors[1].shape)
Cat(tensors) ==
    LET rows == FlattenSeq([i \in DOMAIN tensors |-> tensors[i].rows])
    IN [shape |-> <<Len(rows)>> \o Tail(tensors[1].shape), rows |-> rows]

\* relu keeps the shape; a module maps each row to a row of two elements.
Forward(kind, x) ==
    IF kind = "relu" \/ x.shape = <<>> THEN x ELSE [x EXCEPT !.shape = <<Head(x.shape), 2>>]

\* y.chunk(n, 0): pieces of ceil(rows / n) rows, fewer than n if they run out.
SplitBySize(y, n) ==   \* mutant: y.split(n)
    LET R == Len(y.rows)
    IN [i \in 1 .. (R + n - 1) \div n |->
           [shape |-> <<Min({n, R - (i - 1) * n})>> \o Tail(y.shape),
            rows |-> SubSeq(y.rows, (i - 1) * n + 1, Min({i * n, R}))]]
Chunk(y, n) ==
    LET R == Len(y.rows)
        k == (R + n - 1) \div n
    IN [i \in 1 .. (IF R = 0 THEN n ELSE (R + k - 1) \div k) |->
           [shape |-> <<Min({k, R - (i - 1) * k})>> \o Tail(y.shape),
            rows |-> SubSeq(y.rows, (i - 1) * k + 1, Min({i * k, R}))]]

Failed(why) == [ok |-> FALSE, error |-> why]

\* The shape is reported in any case, the result copied to the request's buffer if it fits.
Response(y, request) ==
    IF Product(y.shape) > request.buffer
    THEN [ok |-> FALSE, error |-> "too_small", shape |-> y.shape]
    ELSE [ok |-> TRUE, shape |-> y.shape, output |-> y.rows]

\* infer
Infer(kind, request, i) ==
    CASE kind = "none" -> Failed("not_loaded")
      [] kind = "throws" -> Failed("exception")
      [] OTHER -> Response(Forward(kind, Input(request, i)), request)

\* infer_batch: chunks[i] past the last chunk is undefined, any response may come of it.
BatchResponses(kind, batch) ==
    LET n == Len(batch)
        inputs == [i \in 1 .. n |-> Input(batch[i], i)]
        chunks == Chunk(Forward(kind, Cat(inputs)), n)
    IN CASE kind = "none" -> [i \in 1 .. n |-> Failed("not_loaded")]
         [] kind # "none" /\ (kind = "throws" \/ ~CanCat(inputs)) ->
                [i \in 1 .. n |-> Failed("exception")]
         [] OTHER -> [i \in 1 .. n |-> IF i \in DOMAIN chunks THEN Response(chunks[i], batch[i])
                                       ELSE Failed("undefined")]

\* The batch of an executor: requests for one model.
InferBatch(id) ==
    /\ inference.batch = <<>>
    /\ \E n \in 1 .. MaxBatch :
       \E batch \in [1 .. n -> [shape : Shapes, buffer : BufferSizes]] :
          inference' = [batch |-> batch, model |-> models[id],
                        responses |-> BatchResponses(models[id], batch)]
    /\ UNCHANGED models

TorchNext == \E id \in ModelIds : TorchLoad(id) \/ TorchUnload(id) \/ InferBatch(id)

TorchSpec == TorchInit /\ [][TorchNext]_torchVars

\* A request that shares a batch gets what it would have got alone, rows, shape, error
\* and all, however small another request's buffer is.  The session asks for that case:
\* every request of a model has the configured input shape (main.cpp:177), which must
\* not be empty: scalars cannot be concatenated (torch_backend.cpp:131-219).
BatchLikeSingle ==
    LET batch == inference.batch IN
    (\A i \in DOMAIN batch : batch[i].shape = batch[1].shape /\ batch[i].shape # <<>>)
        => \A i \in DOMAIN batch :
              inference.responses[i] = Infer(inference.model, batch[i], i)

=============================================================================
