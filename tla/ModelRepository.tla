-------------------------- MODULE ModelRepository --------------------------
(***************************************************************************)
(* src/model: ModelRepository::scan_and_load over a directory tree that    *)
(* the file system lists in any order, ModelConfig::from_dir, and what     *)
(* main makes of the result.  load_model runs here without concurrency;    *)
(* Runtime has its steps one by one.  A config.ini is what it says of name,*)
(* version and backend, and whether std::stoi or stoul throws on it.       *)
(***************************************************************************)
EXTENDS Integers, Sequences, FiniteSets, FiniteSetsExt, SequencesExt

CONSTANTS Dirs,        \* entries of the repository; the name of a model by default
          Versions,    \* numeric subdirectories there may be
          Configured   \* values of version= in a config.ini

ASSUME RepositoryAssumption == /\ IsFiniteSet(Dirs) /\ IsFiniteSet(Versions)
                               /\ Versions \subseteq Nat /\ Configured \subseteq Int

NoName == ""   \* cfg.name.empty()
NoModel == [state |-> "none", version |-> 0]

\* A model directory: its config.ini ("absent" means the defaults), what is in each
\* version directory, and whether torch::jit::load accepts the file.
ModelDirs ==
    [kind : {"model"}, config : {"present"}, name : Dirs, version : Configured,
     backend : {"torchscript"}, loads : BOOLEAN,
     files : [Versions -> {"missing", "empty", "model"}]]
Oddities ==
    LET plain == [kind |-> "model", config |-> "present", name |-> NoName, version |-> 1,
                  backend |-> "torchscript", loads |-> TRUE,
                  files |-> [v \in Versions |-> "model"]]
    IN {[plain EXCEPT !.kind = "file"], [plain EXCEPT !.kind = "hidden"], plain,
        [plain EXCEPT !.config = "throws"]}
Absent(files) == [kind |-> "model", config |-> "absent", name |-> NoName, version |-> 1,
                  backend |-> "torchscript", loads |-> TRUE, files |-> files]
Onnx(d) == [kind |-> "model", config |-> "present", name |-> d, version |-> 1,
            backend |-> "onnx", loads |-> TRUE, files |-> [v \in Versions |-> "model"]]
Entries == ModelDirs \cup Oddities \cup {Onnx(d) : d \in Dirs}
           \cup {Absent(f) : f \in [Versions -> {"missing", "empty", "model"}]}

VARIABLES repo,     \* the directory tree
          scan,     \* scan_and_load: "idle", "scanning", "thrown" or "done", then main
          todo,     \* entries the iterator has not reached
          registered,   \* the registry: state and version of each name
          result    \* LoadResult

repositoryVars == <<repo, scan, todo, registered, result>>

RepositoryInit ==
    /\ repo = <<>>
    /\ scan = "idle"
    /\ todo = {}
    /\ registered = [n \in Dirs |-> NoModel]
    /\ result = [loaded |-> 0, failed |-> 0, skipped |-> 0]

ScanBegins ==
    /\ scan = "idle"
    /\ repo' \in [Dirs -> Entries]
    /\ scan' = "scanning"
    /\ todo' = Dirs
    /\ UNCHANGED <<registered, result>>

----------------------------------------------------------------------------
(* ModelConfig::from_dir *)

HasFile(e, v) == v \in Versions /\ e.files[v] = "model"

LastFound(e, best, v) == IF HasFile(e, v) THEN v ELSE best   \* mutant: v > best_ver dropped
Better(e, best, v) == IF v > best /\ HasFile(e, v) THEN v ELSE best

\* The best version that the walk over the subdirectories in this order finds, and the
\* version it settles on and whether that has a file: the configured one comes first.
Best(e, order) ==
    LET best[i \in 0 .. Len(order)] == IF i = 0 THEN -1 ELSE Better(e, best[i - 1], order[i])
    IN best[Len(order)]
FromDir(e, order) ==
    IF HasFile(e, e.version) THEN [version |-> e.version, path |-> TRUE]
    ELSE IF Best(e, order) # -1 THEN [version |-> Best(e, order), path |-> TRUE]
    ELSE [version |-> e.version, path |-> FALSE]

NameOf(d) == IF repo[d].config = "absent" THEN d ELSE repo[d].name

----------------------------------------------------------------------------
(* scan_and_load *)

IsModelDir(e) == e.kind = "model" /\ (e.config # "absent"
                                      \/ \E v \in Versions : e.files[v] # "missing")

CountResult(field) == result' = [result EXCEPT ![field] = @ + 1]

\* An entry that is not a directory is passed over without a count.
ScanSkips(d) ==
    /\ scan = "scanning" /\ d \in todo /\ ~IsModelDir(repo[d])
    /\ todo' = todo \ {d}
    /\ IF repo[d].kind = "file" THEN UNCHANGED result ELSE CountResult("skipped")
    /\ UNCHANGED <<repo, scan, registered>>

\* load_model: a nameless configuration fails, one that does not parse throws out of the
\* scan.  Without a file the backend loads its default operation.
ScanLoads(d) ==
    LET e == repo[d] IN
    /\ scan = "scanning" /\ d \in todo /\ IsModelDir(e)
    /\ todo' = todo \ {d}
    /\ UNCHANGED repo
    /\ \/ /\ e.config = "throws"
          /\ scan' = "thrown"
          /\ UNCHANGED <<registered, result>>
       \/ /\ e.config # "throws" /\ NameOf(d) = NoName
          /\ CountResult("failed")
          /\ UNCHANGED <<scan, registered>>
       \/ /\ e.config # "throws" /\ NameOf(d) # NoName
          /\ \E order \in SetToSeqs({v \in Versions : e.files[v] # "missing"}) :
                LET cfg == FromDir(e, order)
                    ok == e.backend = "torchscript" /\ (cfg.path => e.loads)
                IN /\ registered' = [registered EXCEPT ![NameOf(d)] =
                                    [state |-> IF ok THEN "Ready" ELSE "Failed",
                                     version |-> cfg.version]]
                   /\ CountResult(IF ok THEN "loaded" ELSE "failed")
          /\ UNCHANGED scan

\* main: no server without a loaded model; else every Ready model is registered.
MainDecides ==
    /\ scan = "scanning" /\ todo = {}
    /\ scan' = IF result.loaded = 0 THEN "refused" ELSE "serving"
    /\ UNCHANGED <<repo, todo, registered, result>>

RepositoryNext ==
    \/ ScanBegins \/ MainDecides
    \/ \E d \in Dirs : ScanSkips(d) \/ ScanLoads(d)

RepositorySpec == RepositoryInit /\ [][RepositoryNext]_repositoryVars

----------------------------------------------------------------------------
(* What the scan promises, as a function of the directories only *)

ExpectedOf(e) ==
    LET have == {v \in Versions : e.files[v] = "model"}
    IN [state |-> IF e.backend = "torchscript" /\ (have = {} \/ e.loads)
                  THEN "Ready" ELSE "Failed",
        version |-> IF e.version \in have \/ have = {} THEN e.version ELSE Max(have)]

Visited == IF scan = "idle" THEN {} ELSE Dirs \ todo
Loadable(d) == IsModelDir(repo[d]) /\ repo[d].config # "throws" /\ NameOf(d) # NoName
Unique(d) == \A c \in Visited : (c # d /\ Loadable(c)) => NameOf(c) # NameOf(d)

\* Whatever the order in which directories and versions are listed: a model whose name
\* no other directory claims is Ready or Failed as its own files say, with the
\* configured version if that has a file and else the highest that has one; every
\* directory whose configuration does not throw is counted once; and, names being
\* unique, main starts a server exactly when it has a model to serve
\* (model_repository.cpp:83-135, model_config.cpp:92-115, main.cpp:238-259).
ScanFaithful ==
    /\ \A d \in Visited : (Loadable(d) /\ Unique(d)) => registered[NameOf(d)] = ExpectedOf(repo[d])
    /\ result.loaded + result.failed + result.skipped
          = Cardinality({d \in Visited : IsModelDir(repo[d]) => repo[d].config # "throws"}
                        \ {d \in Visited : repo[d].kind = "file"})
    /\ (scan \in {"refused", "serving"} /\ \A d \in Dirs : Loadable(d) => Unique(d))
          => (scan = "serving" <=> \E n \in Dirs : registered[n].state = "Ready")

\* "Errors in one model do NOT abort loading of others -- failed models are registered
\* with state=FAILED" (model_repository.hpp:32-33): an exception of load_model leaves no
\* directory unvisited, and, names being unique, the failures that the scan has counted
\* are those that it has registered.
ErrorsIsolated ==
    /\ scan = "thrown" => todo = {}
    /\ (\A d \in Visited : Loadable(d) => Unique(d))
          => result.failed = Cardinality({n \in Dirs : registered[n].state = "Failed"})

=============================================================================
