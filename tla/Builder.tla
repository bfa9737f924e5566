-------------------------------- MODULE Builder --------------------------------
(* build_cppmodule() and build_vmodule() (builder.py): from a source file to the module that Python *)
(* imports, in processes that may end between any two steps, while the files change.                *)
(*                                                                                                  *)
(* A C++ header is parsed, once per process for the same contents (cpp_parser.py); a VHDL entity is *)
(* transpiled (Transpile.tla), and the SystemVerilog read by Verilator. What has been read from the *)
(* source, and its contents, make the key of the build (BuildCache.tla).                            *)
EXTENDS BuildCache

CONSTANTS
    Builds,             \* Builds[p]: the kinds of build that a process asks for
    Dependencies,       \* of the C++ modules: packages and libraries are given
    MaxEdits,           \* bound: times that the source is edited
    MaxStarts,          \* bound: processes that are started
    MaxCalls            \* bound: calls

ASSUME BuilderAssumption ==
    /\ Kinds \subseteq {"cpp", "verilog", "vhdl"}
    /\ Builds \in [Processes -> SUBSET Kinds]
    /\ {None, "empty"} \cap Versions = {}

VARIABLES
    source,             \* the contents of the source file: a header, Verilog or VHDL
    arguments,          \* compile_args.json, for each version of the tools
    parsed,             \* CppHeader._loaded of each process: what was parsed, and its digest
    work, temporary, systemVerilog, crowded, task,
    edits, starts, calls

bounds == <<edits, starts, calls>>

Vhdl == INSTANCE Transpile

frontVars == <<source, arguments, parsed>>
vhdlVars == <<work, temporary, systemVerilog, crowded, task>>
vars == <<cacheVars, frontVars, vhdlVars, bounds>>

Init ==
    /\ CacheInit
    /\ Vhdl!TranspileInit
    /\ source \in Versions
    /\ arguments = [t \in Tools |-> None]
    /\ parsed = [p \in Processes |-> None]
    /\ edits = 0
    /\ starts = 0
    /\ calls = 0

-----------------------------------------------------------------------------
(* What happens around the builds. *)

(* Every call that is under way has been disturbed. *)
DisturbAll(change(_)) ==
    call' = [p \in Processes |-> IF p \in Idle THEN call[p] ELSE change([call[p] EXCEPT !.disturbed = TRUE])]

EditSource(v) ==
    /\ edits < MaxEdits /\ v # source
    /\ edits' = edits + 1
    /\ source' = v
    /\ LET Seen(c) == [c EXCEPT !.versions = @ \cup {v}] IN DisturbAll(Seen)
    /\ UNCHANGED <<library, tools, directory, toolchain, loaded, arguments, parsed, vhdlVars, starts, calls>>

EditLibrary ==
    /\ edits < MaxEdits
    /\ edits' = edits + 1
    /\ library' = library + 1
    /\ LET Same(c) == c IN DisturbAll(Same)
    /\ UNCHANGED <<tools, directory, toolchain, loaded, frontVars, vhdlVars, starts, calls>>

(* The tools do "not change while a process runs" (toolchain.py:39). *)
Upgrade(t) ==
    /\ \A p \in Processes : call[p].at = "off"
    /\ t > tools
    /\ tools' = t
    /\ UNCHANGED <<library, directory, call, toolchain, loaded, frontVars, vhdlVars, bounds>>

StartProcess(p) ==
    /\ At(p, "off") /\ starts < MaxStarts
    /\ starts' = starts + 1
    /\ Quietly(p, NewCall)
    /\ toolchain' = [toolchain EXCEPT ![p] = tools]
    /\ UNCHANGED <<library, tools, directory, loaded, frontVars, vhdlVars, edits, calls>>

(* A process exits, or is killed in the middle of a build. *)
EndProcess(p) ==
    /\ ~At(p, "off")
    /\ Visibly(p, Off)
    /\ toolchain' = [toolchain EXCEPT ![p] = None]
    /\ loaded' = [loaded EXCEPT ![p] = [k \in Keys |-> None]]
    /\ parsed' = [parsed EXCEPT ![p] = None]
    /\ task' = [task EXCEPT ![p] = Vhdl!NewTask]
    /\ UNCHANGED <<library, tools, directory, source, arguments, work, temporary, systemVerilog, crowded, bounds>>

-----------------------------------------------------------------------------
(* A call of build_cppmodule() or build_vmodule(). *)

FrontEnd(k) == CASE k = "cpp" -> IF Dependencies THEN "dependencies" ELSE "parse"
                 [] k = "verilog" -> "describe"
                 [] k = "vhdl" -> "transpile"

Call(p, k) ==
    /\ At(p, "ready") /\ calls < MaxCalls
    /\ calls' = calls + 1
    /\ call' = [q \in Processes |->
                  IF q = p THEN [NewCall EXCEPT !.at = FrontEnd(k), !.kind = k, !.versions = {source},
                                                !.tools = tools, !.library = library,
                                                !.disturbed = Processes # Idle]
                  ELSE IF q \in Idle THEN call[q] ELSE [call[q] EXCEPT !.disturbed = TRUE]]
    /\ UNCHANGED <<library, tools, directory, toolchain, loaded, frontVars, vhdlVars, edits, starts>>

KeepCache == KeepFiles /\ UNCHANGED bounds
KeepRest == KeepCache /\ UNCHANGED vhdlVars

(* dependency_compile_args(): CMake is asked once, and the answer kept in a file. *)
ReadArguments(p) ==
    /\ At(p, "dependencies")
    /\ Quietly(p, CASE arguments[toolchain[p]] = None -> GoTo(p, "ask")
                    [] arguments[toolchain[p]] = "empty" -> Ended(p, "failed", None)
                    [] OTHER -> GoTo(p, "parse"))
    /\ KeepRest /\ UNCHANGED frontVars

WriteArguments(p) ==
    /\ \/ /\ At(p, "ask")
          /\ arguments' = [arguments EXCEPT ![toolchain[p]] = "empty"]
          /\ Visibly(p, GoTo(p, "answer"))
       \/ /\ At(p, "answer")
          /\ arguments' = [arguments EXCEPT ![toolchain[p]] = "written"]
          /\ Visibly(p, GoTo(p, "parse"))
    /\ KeepRest /\ UNCHANGED <<source, parsed>>

(* CppHeader.load(): the header as it was parsed before, unless it has changed since. *)
IsCurrent(p) == parsed[p] # None /\ parsed[p].digest = source

Parse(p) ==
    /\ At(p, "parse")
    /\ Quietly(p, IF IsCurrent(p) THEN [GoTo(p, "key") EXCEPT !.described = parsed[p].described]
                  ELSE [GoTo(p, "digest") EXCEPT !.described = source])
    /\ KeepRest /\ UNCHANGED frontVars

(* The digests are taken when the header is parsed. *)
DigestHeader(p) ==
    /\ At(p, "digest")
    /\ parsed' = [parsed EXCEPT ![p] = [described |-> call[p].described, digest |-> source]]
    /\ Quietly(p, GoTo(p, "key"))
    /\ KeepRest /\ UNCHANGED <<source, arguments>>

TranspileStep(p) ==
    /\ At(p, "transpile")
    /\ Vhdl!Transpiles(p)
    /\ Visibly(p, IF task'[p].at = "found" THEN GoTo(p, "describe") ELSE call[p])
    /\ KeepCache /\ UNCHANGED <<arguments, parsed>>

TranspileFails(p) ==
    /\ At(p, "transpile")
    /\ Vhdl!IsReplaced(p)
    /\ Quietly(p, Ended(p, "failed", None))
    /\ task' = [task EXCEPT ![p] = Vhdl!NewTask]
    /\ KeepCache /\ UNCHANGED <<frontVars, work, temporary, systemVerilog, crowded>>

(* The file that is read by Verilator, and compiled. *)
Contents(p) == IF call[p].kind = "vhdl" THEN systemVerilog[Vhdl!Digest(p)] ELSE source

(* The variables of transpile() are gone when the call ends. *)
Finishes(p) == call'[p].at = "ready"
KeepTask(p) ==
    /\ task' = IF Finishes(p) THEN [task EXCEPT ![p] = Vhdl!NewTask] ELSE task
    /\ UNCHANGED <<frontVars, work, temporary, systemVerilog, crowded, bounds>>

Describe(p) ==
    /\ At(p, "describe")
    /\ Quietly(p, IF Contents(p) = "empty" THEN Ended(p, "failed", None)
                  ELSE [GoTo(p, "key") EXCEPT !.described = Contents(p)])
    /\ KeepFiles /\ KeepTask(p)

(* build_key(): the files are read once more. *)
MakeKey(p) ==
    /\ At(p, "key")
    /\ Quietly(p, IF Contents(p) = "empty" THEN Ended(p, "failed", None)
                  ELSE [GoTo(p, "generate") EXCEPT
                          !.key = [kind |-> call[p].kind, described |-> call[p].described, contents |-> Contents(p)]])
    /\ KeepFiles /\ KeepTask(p)

BackEndStep(p) == call[p].key # None /\ BackEnd(p, Contents(p)) /\ KeepTask(p)

Next ==
    \/ \E v \in Versions : EditSource(v)
    \/ EditLibrary
    \/ \E t \in Tools : Upgrade(t)
    \/ \E p \in Processes :
          \/ StartProcess(p) \/ EndProcess(p)
          \/ \E k \in Builds[p] : Call(p, k)
          \/ ReadArguments(p) \/ WriteArguments(p) \/ Parse(p) \/ DigestHeader(p)
          \/ TranspileStep(p) \/ TranspileFails(p) \/ Describe(p)
          \/ MakeKey(p) \/ BackEndStep(p)

Spec == Init /\ [][Next]_vars

-----------------------------------------------------------------------------
(* What a call returns. *)
Returned(p) == At(p, "ready") /\ call[p].outcome = "returned"
Failed(p) == At(p, "ready") /\ call[p].outcome = "failed"

(* "only an identical build is reused" (docs/Architecture.md), and what is not in the key is rebuilt:   *)
(* the module that a call returns is the code of the source as it was during the call, compiled with *)
(* the headers of that time, by the tools of the process, from files that this dspsim has generated. *)
CodeIsCurrent ==
    \A p \in Processes :
        Returned(p) =>
            LET module == call[p].module
            IN /\ call[p].kind # "vhdl" => module.contents \in call[p].versions
               /\ module.library >= call[p].library
               /\ module.tools >= call[p].tools
               /\ module.generated = {Template[toolchain[p]]}

(* A process that was killed leaves nothing behind that breaks a build: a call that nothing disturbs *)
(* succeeds. It may fail only, for C++, if the header was edited between its parsing and its digest  *)
(* or the arguments of the dependencies were left unwritten, for VHDL, if two processes have written *)
(* some SystemVerilog at once, and in general, if two have generated the files of its key at once:   *)
(* nothing repairs what one that was killed then leaves (toolchain.py:74, builder.py:371,           *)
(* ghdl.py:1139).                                                                                   *)
RecoversFromCrashes ==
    \A p \in Processes :
        Failed(p) /\ ~call[p].disturbed =>
            \/ call[p].kind = "cpp" /\ parsed[p] # None /\ parsed[p].described # parsed[p].digest
            \/ call[p].kind = "cpp" /\ arguments[toolchain[p]] = "empty"
            \/ call[p].kind = "vhdl" /\ crowded # {}
            \/ call[p].key # None /\ Dir(p).shared

(* A module that has not been built again since is the one that is loaded: neither a stale module    *)
(* passes for the new one, nor does anything but a build make the builder ask for a restart.         *)
LoadedIsBuilt ==
    \A p \in Processes, k \in Keys :
        loaded[p][k] # None /\ loaded[p][k].time = directory[k].time => loaded[p][k].module = directory[k].module

(* "the file is what says that the directory is complete" (ghdl.py): whatever happens while the       *)
(* SystemVerilog is written, unless by two processes at once, which share the temporary file.       *)
CompleteIfPresent == \A d \in Versions \ crowded : systemVerilog[d] # "empty"

(* The hash is written "once every file is written" (builder.py:382): a call that generates nothing,  *)
(* as the hash is that of what it would write, finds every file like that when no other call is     *)
(* under way.                                                                                       *)
SkippedIsWritten ==
    [][\A p \in Processes :
          At(p, "generate") /\ call'[p].at = "stamp" /\ Processes \ {p} \subseteq Idle =>
              \A n \in 1..FileCount : Dir(p).files[n] = Rendered(p)]_vars
=============================================================================
