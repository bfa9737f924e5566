------------------------------ MODULE BuildCache ------------------------------
(* The cache directory of the builder (builder.py): a build has a directory that is named after its *)
(* key, where Python processes generate files, configure and build, and import what is built there. *)
(* Several processes share the directory, and each may end between any two steps.                   *)
(*                                                                                                  *)
(* A file has a version for its contents. CMake, the build system and the compiler are external:    *)
(* they rebuild what is out of date, and fail if a generated file is not complete.                  *)
EXTENDS Integers

CONSTANTS
    Processes,
    Kinds,              \* of source files: "cpp", "verilog", "vhdl"
    Versions,           \* of the contents of the source file
    Tools,              \* versions of dspsim and the compiler, as numbers
    Template,           \* the version of the templates that come with each
    FileCount,          \* generated files
    None

(* Older templates do not come back to a cache that newer ones have written to: the hash of the old   *)
(* files stays until the new ones are written, and would pass for that of a mixture.                *)
ASSUME BuildCacheAssumption ==
    /\ Tools \subseteq Nat /\ 0 \in Tools
    /\ DOMAIN Template = Tools
    /\ \A t, u, v \in Tools : t <= u /\ u <= v /\ Template[t] = Template[v] => Template[u] = Template[v]
    /\ None \notin Tools /\ None \notin {"empty", "returned", "failed"} /\ \A t \in Tools : Template[t] \notin {None, "empty"}
    /\ FileCount \in Nat \ {0}

VARIABLES
    library,            \* the version of the headers that are not in the key
    tools,              \* the version of dspsim and the compiler
    directory,          \* of each key: the files, the stamp, and what the build system has there
    call,               \* of each process: what it does next, and the variables of the call
    toolchain,          \* toolchain(), which a process computes once
    loaded              \* _loaded_modules of each process

cacheVars == <<library, tools, directory, call, toolchain, loaded>>

Keys == [kind : Kinds, described : Versions, contents : Versions]
HashFile == FileCount + 1
(* shared: two processes have generated the files at once. *)
NewDirectory == [files |-> [n \in 1..HashFile |-> None], stamp |-> None, configured |-> None,
                 touched |-> FALSE, module |-> None, time |-> 0, shared |-> FALSE]

(* Besides the variables of the call, what its outcome is measured by: the versions of the source    *)
(* file since it began, the tools and the library then, and whether anything has changed or written  *)
(* to the cache meanwhile.                                                                          *)
NewCall == [at |-> "ready", kind |-> None, described |-> None, key |-> None, next |-> 1, stamp |-> None,
            time |-> None, module |-> None, outcome |-> None,
            versions |-> {}, tools |-> None, library |-> None, disturbed |-> FALSE]
Off == [NewCall EXCEPT !.at = "off"]
Idle == {p \in Processes : call[p].at \in {"off", "ready"}}

CacheInit ==
    /\ library = 0
    /\ tools = 0
    /\ directory = [k \in Keys |-> NewDirectory]
    /\ call = [p \in Processes |-> Off]
    /\ toolchain = [p \in Processes |-> None]
    /\ loaded = [p \in Processes |-> [k \in Keys |-> None]]

(* A step of one process, which the calls of the others may notice or not. *)
At(p, point) == call[p].at = point
Quietly(p, new) == call' = [call EXCEPT ![p] = new]
Visibly(p, new) ==
    call' = [q \in Processes |-> IF q = p THEN new
                                 ELSE IF q \in Idle THEN call[q] ELSE [call[q] EXCEPT !.disturbed = TRUE]]
GoTo(p, point) == [call[p] EXCEPT !.at = point]
Ended(p, outcome, module) == [call[p] EXCEPT !.at = "ready", !.outcome = outcome, !.next = 1,
                                             !.stamp = None, !.time = None, !.module = module]

Dir(p) == directory[call[p].key]
KeepFiles == UNCHANGED <<library, tools, directory, toolchain, loaded>>

-----------------------------------------------------------------------------
(* generate_files(): nothing to do if the hash file has the hash of what would be written. *)
Rendered(p) == Template[toolchain[p]]

AlsoGenerated(p) ==
    \E q \in Processes \ {p} : call[q].at \in {"open", "write"} /\ call[q].key = call[p].key

CompareHash(p) ==
    /\ At(p, "generate")
    /\ IF Dir(p).files[HashFile] = Rendered(p)
       THEN Quietly(p, GoTo(p, "stamp")) /\ UNCHANGED directory
       ELSE /\ Quietly(p, [GoTo(p, "open") EXCEPT !.next = 1])
            /\ directory' = [directory EXCEPT ![call[p].key].shared = @ \/ AlsoGenerated(p)]
    /\ UNCHANGED <<library, tools, toolchain, loaded>>

(* The hash file is the last one. *)
HashFirst(n) == IF n = 1 THEN HashFile ELSE n - 1
FileAt(n) == n

(* A file is empty from when it is opened to when it is written. *)
WriteTo(p, contents) ==
    /\ directory' = [directory EXCEPT ![call[p].key].files[FileAt(call[p].next)] = contents,
                                      ![call[p].key].touched = TRUE]
    /\ UNCHANGED <<library, tools, toolchain, loaded>>

OpenFile(p) == At(p, "open") /\ WriteTo(p, "empty") /\ Visibly(p, GoTo(p, "write"))

WriteFile(p) ==
    /\ At(p, "write")
    /\ WriteTo(p, Rendered(p))
    /\ Visibly(p, IF call[p].next = HashFile THEN GoTo(p, "stamp")
                  ELSE [GoTo(p, "open") EXCEPT !.next = @ + 1])

-----------------------------------------------------------------------------
(* _build(): the build directory is configured if its stamp is the one that it would get now. The    *)
(* code reads the hash and the stamp one after the other (builder.py:461-462): a call that ends in   *)
(* between could at most make it configure once more, with the tools of the same process.            *)
HashStamp(p) == <<Dir(p).files[HashFile], None>>
Stamp(p) == <<Dir(p).files[HashFile], toolchain[p]>>
IsConfigured(p) == Dir(p).stamp # None /\ Dir(p).stamp = Stamp(p)

CompareStamp(p) ==
    /\ At(p, "stamp")
    /\ Quietly(p, [GoTo(p, IF IsConfigured(p) THEN "build" ELSE "configure") EXCEPT !.stamp = Stamp(p)])
    /\ KeepFiles

IsWritten(contents) == contents \notin {None, "empty"}
IsConfigurable(p) == IsWritten(Dir(p).files[FileCount])
IsComplete(p) == \A n \in 1..FileCount : IsWritten(Dir(p).files[n])

(* build_module(): the configure step reads the last of the generated files, and finds the compiler. *)
Configure(p) ==
    /\ At(p, "configure") /\ IsConfigurable(p)
    /\ Visibly(p, GoTo(p, "build"))
    /\ directory' = [directory EXCEPT ![call[p].key].configured = tools]
    /\ UNCHANGED <<library, tools, toolchain, loaded>>

(* The build step: the module of the files as they are, with the contents of the source file. *)
Code(p, contents) ==
    [described |-> call[p].key.described, contents |-> contents,
     generated |-> {Dir(p).files[n] : n \in 1..FileCount},
     library |-> library, tools |-> Dir(p).configured]

Build(p, contents) ==
    LET code == Code(p, contents)
    IN /\ At(p, "build") /\ IsComplete(p) /\ IsWritten(contents)
       /\ Visibly(p, GoTo(p, "built"))
       /\ directory' =
            IF code = Dir(p).module /\ ~Dir(p).touched THEN directory
            ELSE [directory EXCEPT ![call[p].key].module = code, ![call[p].key].time = @ + 1,
                                   ![call[p].key].touched = FALSE]
       /\ UNCHANGED <<library, tools, toolchain, loaded>>

(* "CMake configuration failed", "CMake build failed". The code may also not fit its description. *)
Fails(p, contents) ==
    /\ \/ At(p, "configure") /\ ~IsConfigurable(p)
       \/ At(p, "build") /\ (~IsComplete(p) \/ contents # call[p].key.described)
    /\ Quietly(p, Ended(p, "failed", None))
    /\ KeepFiles

(* The stamp, once the build has succeeded. *)
WriteStamp(p) ==
    /\ At(p, "built")
    /\ Visibly(p, GoTo(p, "find"))
    /\ directory' = [directory EXCEPT ![call[p].key].stamp = call[p].stamp]
    /\ UNCHANGED <<library, tools, toolchain, loaded>>

-----------------------------------------------------------------------------
(* _load_built_module(): a module is imported once, and is not if it was built again since. *)
FindModule(p) ==
    LET entry == loaded[p][call[p].key]
    IN /\ At(p, "find")
       /\ Quietly(p, IF entry = None THEN [GoTo(p, "import") EXCEPT !.time = Dir(p).time]
                     ELSE IF entry.time # Dir(p).time THEN Ended(p, "rebuilt", None)
                     ELSE Ended(p, "returned", entry.module))
       /\ KeepFiles

Import(p) ==
    /\ At(p, "import")
    /\ Quietly(p, [GoTo(p, "link") EXCEPT !.module = Dir(p).module])
    /\ KeepFiles

(* link_module(), and the entry in _loaded_modules: the time is the one from before the import. *)
TimeAfter(p) == Dir(p).time
TimeBefore(p) == call[p].time

Link(p) ==
    /\ At(p, "link")
    /\ loaded' = [loaded EXCEPT ![p][call[p].key] = [time |-> TimeBefore(p), module |-> call[p].module]]
    /\ Quietly(p, Ended(p, "returned", call[p].module))
    /\ UNCHANGED <<library, tools, directory, toolchain>>

BackEnd(p, contents) ==
    \/ CompareHash(p) \/ OpenFile(p) \/ WriteFile(p)
    \/ CompareStamp(p) \/ Configure(p) \/ Build(p, contents) \/ Fails(p, contents) \/ WriteStamp(p)
    \/ FindModule(p) \/ Import(p) \/ Link(p)
=============================================================================
