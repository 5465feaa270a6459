-------------------------------- MODULE DefPool --------------------------------
(***************************************************************************)
(* upb_DefPool_AddFile (upb/reflection/def_pool.c, file_def.c): the pool   *)
(* that a file's definitions are added to, one symbol after another, and   *)
(* what is undone when building the file fails.  Symbols and the extension *)
(* registry are tables of HashTable; files are only ever inserted and      *)
(* looked up, so that table is a set.                                      *)
(*                                                                         *)
(* A pool has one user at a time.  The steps of a call are actions because *)
(* each may fail and jump to the roll-back.                                *)
(***************************************************************************)
EXTENDS HashTable, Sequences

CONSTANTS
  Files,        \* file names
  Syms,         \* Syms[f]: the symbols of f in the order of their insertion
  Exts,         \* Exts[f]: its extensions, as keys of the registry
  Deps,         \* Deps[f]: the files it depends on
  InitSize,     \* the size of a new table
  MaxSize,      \* bound: tables grow no further
  MaxBuilds     \* bound: calls that build a file

ASSUME DefPoolAssumption ==
  /\ {Syms, Exts} \subseteq [Files -> Seq(DOMAIN hash)]
  /\ InitSize \in Nat \ {0}

VARIABLES
  syms,         \* s->syms: symbol -> the build that made its definition
  files,        \* s->files
  exts,         \* s->exts: <<build, extension>>
  extreg,       \* s->extreg: extension -> the build
  owner,        \* history: owner[b] is the file of build b
  loaded,       \* history: the builds whose arena the pool keeps
  phase,        \* what the call does next; "idle" between calls
  todo,         \* the symbols or extensions it still has to add
  rolledback,   \* history: a roll-back has removed an entry of syms
  crashed       \* an assertion of insert failed

pool == <<syms, files, exts, extreg>>
vars == <<syms, files, exts, extreg, owner, loaded, phase, todo, rolledback, crashed>>

Idle == phase = "idle" /\ ~crashed

(* The current build stands for builder->file. *)
Build == Len(owner)
File == owner[Build]

(* Mutants: the roll-back passes over the entry behind a removed one; the  *)
(* back-out forgets the entry added last.                                  *)
RemoveSkipping(t, b) ==
  LET ours(i) == ~isempty(t, i) /\ t.entries[i].val = b
      step(u, n) == IF ours(n - 1) /\ (n > 1 => ~ours(n - 2)) THEN removeiter(u, n - 1)
                    ELSE u
  IN Loop(t, t.size, step)
BackOutShort(r, e, n) == Loop(r, n, LAMBDA u, m : IF m = n THEN u ELSE rm(u, e[m]))

(* The entries of build b, removed while the table is iterated over. *)
remove_filedef(t, b) ==
  LET step(u, n) == IF ~isempty(u, n - 1) /\ u.entries[n - 1].val = b
                    THEN removeiter(u, n - 1) ELSE u
  IN Loop(t, t.size, step)

Init ==
  /\ syms = init(InitSize)
  /\ files = {}
  /\ exts = {}
  /\ extreg = init(InitSize)
  /\ owner = <<>>
  /\ loaded = {}
  /\ phase = "idle"
  /\ todo = <<>>
  /\ rolledback = FALSE
  /\ crashed = FALSE

(* UPB_LONGJMP to AddFileToPool, with the table as the failed step left it:*)
(* the builder's arena is freed, and with it the definitions of the build. *)
FailJmp(t) ==
  /\ syms' = remove_filedef(t, Build)
  /\ rolledback' = (rolledback \/ syms'.count # t.count)
  /\ phase' = "idle"
  /\ todo' = <<>>
  /\ UNCHANGED <<files, exts, owner, loaded, crashed>>

(* A name that is loaded already is refused before anything is built; so   *)
(* is a builder without memory, which leaves no trace either.              *)
AddFile(f) ==
  /\ Idle
  /\ Len(owner) < MaxBuilds
  /\ f \notin files
  /\ owner' = Append(owner, f)
  /\ phase' = "syms"
  /\ todo' = Syms[f]
  /\ UNCHANGED <<pool, loaded, rolledback, crashed>>

MissingDependency ==
  /\ phase = "syms"
  /\ ~(Deps[File] \subseteq files)
  /\ FailJmp(syms)
  /\ UNCHANGED extreg

(* _upb_DefPool_InsertSym for the next definition. *)
InsertSym ==
  /\ phase = "syms"
  /\ ~crashed
  /\ Deps[File] \subseteq files
  /\ todo # <<>>
  /\ LET sym == Head(todo)
         roomy == Grown(syms)
     IN IF findentry(syms, sym) # NULL
        THEN FailJmp(syms) /\ UNCHANGED extreg
        ELSE \/ \E t \in {syms, roomy} : FailJmp(t) /\ UNCHANGED extreg
             \/ /\ isfull(syms) => syms.size < MaxSize
                /\ IF InsertDefined(roomy, sym)
                   THEN /\ syms' = insert(roomy, sym, Build)
                        /\ todo' = Tail(todo)
                        /\ UNCHANGED <<phase, crashed>>
                   ELSE crashed' = TRUE /\ UNCHANGED <<syms, todo, phase>>
                /\ UNCHANGED <<files, exts, extreg, owner, loaded, rolledback>>

(* Resolving references, checking options, building the mini tables: all   *)
(* may fail, none touches a table.                                         *)
Resolve ==
  /\ phase = "syms"
  /\ Deps[File] \subseteq files
  /\ todo = <<>>
  /\ \/ FailJmp(syms) /\ UNCHANGED extreg
     \/ /\ phase' = "exts"
        /\ todo' = Exts[File]
        /\ UNCHANGED <<pool, owner, loaded, rolledback, crashed>>

(* _upb_FieldDef_BuildMiniTableExtension, _upb_DefPool_InsertExt. *)
InsertExt ==
  /\ phase = "exts"
  /\ todo # <<>>
  /\ \/ FailJmp(syms) /\ UNCHANGED extreg
     \/ /\ exts' = exts \cup {<<Build, Head(todo)>>}
        /\ todo' = Tail(todo)
        /\ UNCHANGED <<syms, files, extreg, owner, loaded, phase, rolledback, crashed>>

(* upb_ExtensionRegistry_Add for the extensions 1 .. n of e, and their     *)
(* removal.                                                                *)
Added(r, e, n) == Loop(r, n, LAMBDA u, m : insert(Grown(u), e[m], Build))
BackOut(r, e, n) == Loop(r, n, LAMBDA u, m : rm(u, e[m]))

(* upb_ExtensionRegistry_AddArray: everything, or up to an extension that  *)
(* is there already or that there is no memory for (after the table grew   *)
(* for it or before), and back.                                            *)
AddArray ==
  /\ phase = "exts"
  /\ todo = <<>>
  /\ LET e == Exts[File]
         new(n) == findentry(extreg, e[n]) = NULL /\ \A m \in 1 .. n - 1 : e[m] # e[n]
         added(n) == Added(extreg, e, n)
     IN \/ /\ \A n \in DOMAIN e : new(n)
           /\ extreg' = added(Len(e))
           /\ phase' = "commit"
           /\ UNCHANGED <<syms, files, exts, owner, loaded, todo, rolledback, crashed>>
        \/ \E n \in DOMAIN e :
             /\ \A m \in 1 .. n - 1 : new(m)
             /\ \E r \in {added(n - 1), IF new(n) THEN Grown(added(n - 1))
                                        ELSE added(n - 1)} :
                  extreg' = BackOut(r, e, n - 1)
             /\ FailJmp(syms)

(* The file is registered, if there is memory for that, and its arena is   *)
(* fused with that of the pool.                                            *)
Commit ==
  /\ phase = "commit"
  /\ \/ files' = files \cup {File}
     \/ UNCHANGED files
  /\ loaded' = loaded \cup {Build}
  /\ phase' = "idle"
  /\ UNCHANGED <<syms, exts, extreg, owner, todo, rolledback, crashed>>

Next ==
  \/ \E f \in Files : AddFile(f)
  \/ MissingDependency \/ InsertSym \/ Resolve \/ InsertExt \/ AddArray \/ Commit

Spec == Init /\ [][Next]_vars
----------------------------------------------------------------------------
SymsOf(b) == {Syms[owner[b]][n] : n \in DOMAIN Syms[owner[b]]}
ExtsOf(b) == {Exts[owner[b]][n] : n \in DOMAIN Exts[owner[b]]}

(* Every variable has its type, and every entry a build. *)
TypeOK ==
  /\ \A t \in {syms, extreg} :
       /\ t.entries \in [Slots(t) -> [key : Nat, val : Nat, next : Slots(t) \cup {NULL}]]
       /\ \A i \in Slots(t) : isempty(t, i) \/ t.entries[i].val \in 1 .. Build
  /\ files \subseteq Files
  /\ \A x \in exts : x[1] \in 1 .. Build
  /\ owner \in Seq(Files) /\ loaded \subseteq 1 .. Build
  /\ phase \in {"idle", "syms", "exts", "commit"}
  /\ {rolledback, crashed} \subseteq BOOLEAN

(* After a call, failed or not, no symbol leads to a definition that was   *)
(* freed with its builder, although the roll-back removes entries of the   *)
(* table it is iterating over.                                             *)
NoFreedSymbols ==
  Idle => \A i \in Slots(syms) : isempty(syms, i) \/ syms.entries[i].val \in loaded

(* The extension registry has the extensions of the loaded files and no    *)
(* other, whether AddArray failed, or backed out of colliding entries.     *)
RegistryExact ==
  /\ WellFormed(extreg)
  /\ Idle => \A b \in 1 .. Build : \A e \in ExtsOf(b) :
       LET i == findentry(extreg, e)
       IN IF b \in loaded THEN i # NULL /\ extreg.entries[i].val = b
          ELSE i # NULL => extreg.entries[i].val \in loaded

(* As long as no roll-back removed an entry the pool is sound: no symbol   *)
(* of a loaded file is lost by growth or collisions, none is defined       *)
(* twice, and insert meets no broken chain.                                *)
SoundUntilRollback ==
  ~rolledback =>
    /\ ~crashed
    /\ WellFormed(syms)
    /\ \A b \in loaded : \A s \in SymsOf(b) :
         findentry(syms, s) # NULL /\ syms.entries[findentry(syms, s)].val = b

(* The count that decides on growth is exact also after roll-backs, so     *)
(* that there is always an empty entry to insert into.                     *)
CountExact ==
  /\ TypeOK
  /\ syms.count = Cardinality({i \in Slots(syms) : ~isempty(syms, i)})
  /\ syms.count <= syms.size - syms.size \div 8

(* A file that failed takes only its own entries with it: every symbol of  *)
(* every loaded file is still found.                                       *)
SymbolsSurviveFailure ==
  Idle => \A b \in loaded : \A s \in SymsOf(b) : findentry(syms, s) # NULL
================================================================================
