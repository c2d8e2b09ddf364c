---------------------------- MODULE CodeCaches ----------------------------
(***************************************************************************)
(* How the guest's own changes to its code reach the code that runs.       *)
(*                                                                         *)
(* The block JITs keep translations in a profile, by physical page, and in *)
(* a cache, by virtual address; the interpreter keeps decoded instructions *)
(* by virtual address; the cache-based memory model keeps pages it found   *)
(* for reads, fetches among them, and for writes.  A store to a page with  *)
(* translations marks it dirty.  What throws the rest away are events that *)
(* the guest's fences and flushes publish.                                 *)
(*                                                                         *)
(* There is one core.  A block is an offset in a page.  What a page holds  *)
(* is the number of stores to it.  A translation is one value; freed says  *)
(* of an entry of the cache that its translation was freed.  A block whose *)
(* fetch faults changes no cache of the JITs.  Two blocks never share an   *)
(* entry of a cache.                                                       *)
(***************************************************************************)
EXTENDS Naturals, FiniteSets

CONSTANTS
    VPages,     \* virtual pages
    PPages,     \* physical pages
    Offsets,    \* the blocks of a page
    Programs    \* guests: the blocks one runs, the page tables it goes through, how
                \* often it stores to a page, and whether it uses a feature

VARIABLES
    program,    \* the guest
    engine,     \* BlockJIT, BlockLLVM or Interpreter
    platform,   \* what publishes the events: riscv, arm or user
    memory,     \* the memory model: base, cache or user
    aggressive, \* --aggressive-code-invalidation
    mapped,     \* the page tables
    stores,     \* the contents of the physical pages
    level,      \* the level of a feature of the processor
    readCache,  \* the caches of the memory model
    writeCache,
    codePages,  \* code_regions
    profile,    \* phys_block_profile_: the translations of a page
    dirtied,    \* _dirty of its pages
    dirtyPages, \* _dirty_pages
    virt,       \* virt_block_cache_
    flush,      \* flush_txlns_ and flush_all_txlns_
    decoded,    \* decode_cache_
    seen,       \* history: where a page was mapped since the engine last heard of it
    synced      \* history: the contents of a page when the engine last heard of it

setup == <<program, engine, platform, memory, aggressive>>
tables == <<mapped, stores, level>>
caches == <<readCache, writeCache>>
txlns == <<profile, dirtied, dirtyPages, virt>>
heard == <<seen, synced>>
blockVars == <<setup, tables, caches, codePages, txlns, flush, decoded, heard>>

NoPage == 0
AnyLevel == 0
Blocks == VPages \X Offsets

ASSUME PagesAssumption == NoPage \notin PPages
ASSUME ProgramsAssumption ==
    \A p \in Programs : /\ p.blocks \subseteq Blocks
                        /\ p.spaces \subseteq [VPages -> PPages \cup {NoPage}]

JIT == engine # "Interpreter"
Decoding == engine = "Interpreter" /\ ~aggressive

NoTranslation == [none |-> TRUE]
NoTranslations == [o \in Offsets |-> NoTranslation]
NothingCached == [b \in Blocks |-> NoTranslation]
NoPages == [v \in VPages |-> NoPage]

\* A user program has one space, which never changes.
BlocksInit ==
    /\ engine \in {"BlockJIT", "BlockLLVM", "Interpreter"}
    /\ platform \in {"riscv", "arm", "user"}
    /\ memory \in IF platform = "user" THEN {"user"} ELSE {"base", "cache"}
    /\ aggressive \in BOOLEAN
    /\ program \in Programs
    /\ platform = "user" <=> program.spaces = {[v \in VPages |-> v]}
    /\ mapped \in program.spaces
    /\ stores = [p \in PPages |-> 1] /\ level = 1
    /\ readCache = NoPages /\ writeCache = NoPages
    /\ codePages = {}
    /\ profile = [p \in PPages |-> NoTranslations]
    /\ dirtied = {} /\ dirtyPages = {} /\ virt = NothingCached /\ flush = "none"
    /\ decoded = NothingCached
    /\ seen = [v \in VPages |-> {mapped[v]}]
    /\ synced = stores

-----------------------------------------------------------------------------
(* The memory model.                                                       *)

Cached(cache, v) == memory = "cache" /\ cache[v] # NoPage
PageFor(cache, v) == IF Cached(cache, v) THEN cache[v] ELSE mapped[v]
Fill(cache, v) == IF memory = "cache" THEN [cache EXCEPT ![v] = PageFor(cache, v)] ELSE cache

\* A read of the guest's.
Load(v) ==
    /\ memory = "cache" /\ PageFor(readCache, v) # NoPage
    /\ readCache' = Fill(readCache, v)
    /\ UNCHANGED <<setup, tables, writeCache, codePages, txlns, flush, decoded, heard>>

\* CodeRegionTracker::InvalidateRegion, with the MarkPageDirty of the engine.
InvalidateRegion(p) ==
    /\ codePages' = codePages \ {p}
    /\ dirtied' = IF p \in codePages THEN dirtied \cup {p} ELSE dirtied
    /\ dirtyPages' = IF p \in codePages THEN dirtyPages \cup {p} ELSE dirtyPages

StoreTo(p) ==
    /\ p # NoPage /\ stores[p] <= program.stores
    /\ stores' = [stores EXCEPT ![p] = @ + 1]
    /\ UNCHANGED <<setup, mapped, level, readCache, profile, virt, flush, decoded, heard>>

\* The two memory models of a system look for translations of the page.
StoreBase(v) ==
    /\ memory = "base" /\ StoreTo(mapped[v])
    /\ InvalidateRegion(mapped[v]) /\ UNCHANGED writeCache

StoreCached(v) ==
    /\ memory = "cache" /\ StoreTo(PageFor(writeCache, v))
    /\ InvalidateRegion(PageFor(writeCache, v))
    /\ writeCache' = Fill(writeCache, v)

\* Code that LLVM compiled stores by itself where the cache has the page.
StoreDirect(v) ==
    /\ engine = "BlockLLVM" /\ Cached(writeCache, v) /\ StoreTo(writeCache[v])
    /\ UNCHANGED <<writeCache, codePages, dirtied, dirtyPages>>

\* A store in user mode is one to the host's memory.
StoreUser(v) ==
    /\ memory = "user" /\ StoreTo(mapped[v])
    /\ UNCHANGED <<writeCache, codePages, dirtied, dirtyPages>>

Store(v) ==
    \/ StoreBase(v) \/ StoreDirect(v) \/ StoreUser(v)
    \/ ~(engine = "BlockLLVM" /\ Cached(writeCache, v)) /\ StoreCached(v)

\* The guest changes its page tables: one entry, or all of them.
Remap(m) ==
    /\ m # mapped /\ mapped' = m
    /\ seen' = [v \in VPages |-> seen[v] \cup {m[v]}]
    /\ UNCHANGED <<setup, stores, level, caches, codePages, txlns, flush, decoded, synced>>

-----------------------------------------------------------------------------
(* Events.                                                                 *)

ITlb == "ITlbFullFlush"
DTlb == "DTlbFullFlush"
L1I == "L1ICacheFlush"
Dead == "FlushTranslations"
All == "FlushAllTranslations"

\* What one instruction publishes.  RISC-V: fence.i and a write of SATP, and
\* sfence.vma.  ARM: the operations of the control coprocessor.  User mode: fence.i
\* and cacheflush, and clflush.
Published ==
    CASE platform = "riscv" -> {{ITlb, DTlb}, {Dead, ITlb, DTlb}}
      [] platform = "arm" -> {{L1I}, {ITlb}, {DTlb}, {ITlb, DTlb}}
      [] platform = "user" -> {{L1I}, {All}}

\* What has to be published for the engine to look at the page tables again.
HearsOfMapping(events) ==
    IF JIT THEN events \cap {ITlb, L1I, Dead, All} # {}
    ELSE /\ Decoding => events \cap {Dead, All} # {}
         /\ memory = "cache" => DTlb \in events

\* And at the code.  No store is noticed in user mode.
HearsOfCode(events) ==
    \/ All \in events
    \/ JIT /\ events \cap {L1I, Dead} # {} /\ (aggressive \/ memory # "user")
    \/ ~JIT /\ (aggressive \/ Dead \in events)

\* What empties the cache of the JITs.
\* Variant: not what is about the page tables.
FlushedByCode == {L1I, Dead, All}

FlushedBy == {ITlb, L1I, Dead, All}

\* flush_txlns_callback.
FlushTxlns(events) ==
    /\ virt' = IF events \cap FlushedBy # {} THEN NothingCached ELSE virt
    /\ flush' = IF ~JIT THEN flush
                ELSE IF All \in events THEN "all"
                ELSE IF flush = "none" /\ events \cap {L1I, Dead} # {} THEN "dead"
                ELSE flush

\* The FlushCallback of the memory model.
FlushCaches(events) ==
    /\ readCache' = IF DTlb \in events THEN NoPages ELSE readCache
    /\ writeCache' = IF DTlb \in events THEN NoPages ELSE writeCache

\* And that of the decode cache.
FlushDecoded(events) ==
    decoded' = IF events \cap {Dead, All} # {} THEN NothingCached ELSE decoded

Publish(events) ==
    /\ FlushTxlns(events) /\ FlushCaches(events) /\ FlushDecoded(events)
    /\ seen' = IF HearsOfMapping(events) THEN [v \in VPages |-> {mapped[v]}] ELSE seen
    /\ synced' = IF HearsOfCode(events) THEN stores ELSE synced
    /\ UNCHANGED <<setup, tables, codePages, profile, dirtied, dirtyPages>>

Fence == \E events \in Published : Publish(events)

\* FlushTxlnsFeature: the entries for another level go.
InvalidateFeatures(l) ==
    [b \in Blocks |-> IF virt[b] # NoTranslation /\ virt[b].level \notin {AnyLevel, l}
                      THEN NoTranslation ELSE virt[b]]

\* FeatureChange is published first: what stays is for the level of before.
SetFeatureLevel(l) ==
    /\ platform = "arm" /\ program.features /\ l # level
    /\ level' = l
    /\ virt' = InvalidateFeatures(level)
    /\ UNCHANGED <<setup, mapped, stores, caches, codePages, profile, dirtied, dirtyPages, flush,
                   decoded, heard>>

-----------------------------------------------------------------------------
(* The loop of the JITs.                                                   *)

\* checkFlushTxlns.
CheckFlushTxlns ==
    LET every == aggressive \/ flush = "all"
        gone == IF every THEN PPages ELSE dirtyPages
    IN  /\ flush # "none" /\ flush' = "none"
        /\ profile' = [p \in PPages |-> IF p \in gone THEN NoTranslations ELSE profile[p]]
        /\ dirtied' = dirtied \ gone
        /\ dirtyPages' = IF every THEN dirtyPages ELSE {}
        /\ virt' = NothingCached
        /\ UNCHANGED <<setup, tables, caches, codePages, decoded, heard>>

\* lookupBlock.
Fits(t) == t # NoTranslation /\ t.level \in {AnyLevel, level}

Lookup(b) ==
    LET t == profile[mapped[b[1]]][b[2]]
    IN  /\ JIT /\ flush = "none" /\ virt[b] = NoTranslation /\ mapped[b[1]] # NoPage
        /\ Fits(t)
        /\ virt' = [virt EXCEPT ![b] = t]
        /\ UNCHANGED <<setup, tables, caches, codePages, profile, dirtied, dirtyPages, flush, decoded,
                       heard>>

\* What RegionDispatchedForTranslationPhysical leaves of a cache of the memory model.
\* Variant: all of it.
KeptByDispatch(cache) == cache

AfterDispatch(cache) == NoPages

\* BlockPageProfile::Insert: what the new translation replaces is freed, and all the
\* others of a page that is dirty.
Insert(p, o, t, over) ==
    LET left == IF over \/ p \in dirtied THEN NoTranslations ELSE profile[p]
    IN  [q \in PPages |-> IF q = p THEN [left EXCEPT ![o] = t]
                          ELSE IF over THEN NoTranslations ELSE profile[q]]

\* What that makes of an entry of the cache.
EntryAfter(e, p, o, at) ==
    IF e # NoTranslation /\ e.page = p /\ (p \in dirtied \/ at = o)
    THEN [e EXCEPT !.freed = TRUE] ELSE e

\* translateBlock: over is whether checkCodeSize finds too much code and throws all
\* of it away, and needs the level the block depends on.
Translate(b, over, needs) ==
    LET v == b[1]  o == b[2]  p == mapped[v]
        from == PageFor(AfterDispatch(readCache), v)
        t == [page |-> p, from |-> from, version |-> stores[from], level |-> needs,
              freed |-> FALSE]
    IN  /\ JIT /\ flush = "none" /\ virt[b] = NoTranslation /\ p # NoPage
        /\ ~Fits(profile[p][o])
        /\ codePages' = codePages \cup {p}
        /\ readCache' = Fill(AfterDispatch(readCache), v)
        /\ writeCache' = AfterDispatch(writeCache)
        /\ profile' = Insert(p, o, t, over)
        /\ dirtied' = IF over THEN {} ELSE dirtied \ {p}
        /\ virt' = [c \in Blocks |-> IF c = b THEN t ELSE IF over THEN NoTranslation
                                     ELSE EntryAfter(virt[c], p, o, c[2])]
        /\ UNCHANGED <<setup, tables, dirtyPages, flush, decoded, heard>>

\* BlockLLVM sets no limit to the size of its code.
TranslateBlock(b) ==
    \E over \in {FALSE, engine = "BlockJIT"} :
    \E needs \in {AnyLevel} \cup (IF program.features THEN {level} ELSE {}) :
        Translate(b, over, needs)

\* CachedDecodeContext::DecodeSync: a fault leaves an entry too, with nothing in it.
DecodeSync(b) ==
    LET from == PageFor(readCache, b[1])
        version == IF from = NoPage THEN NoPage ELSE stores[from]
    IN  /\ Decoding /\ decoded[b] = NoTranslation
        /\ decoded' = [decoded EXCEPT ![b] = [from |-> from, version |-> version]]
        /\ readCache' = Fill(readCache, b[1])
        /\ UNCHANGED <<setup, tables, writeCache, codePages, txlns, flush, heard>>

BlocksNext ==
    \/ \E v \in VPages : Load(v) \/ Store(v)
    \/ \E m \in program.spaces : Remap(m)
    \/ Fence
    \/ \E l \in 1 .. 2 : SetFeatureLevel(l)
    \/ CheckFlushTxlns
    \/ \E b \in program.blocks : Lookup(b) \/ TranslateBlock(b) \/ DecodeSync(b)

BlocksSpec == BlocksInit /\ [][BlocksNext]_blockVars

-----------------------------------------------------------------------------
Current(v, t) ==
    /\ t.from \in seen[v]
    /\ t.from # NoPage => t.version >= synced[t.from]

\* What the engine would run next at an address, without looking any further, is
\* what the guest has put there since the engine last heard of it.
BlocksAreCurrent ==
    /\ \A b \in Blocks : virt[b] # NoTranslation /\ ~virt[b].freed => Current(b[1], virt[b])
    /\ \A b \in Blocks : decoded[b] # NoTranslation => Current(b[1], decoded[b])
    /\ ~JIT /\ ~Decoding => \A v \in VPages : readCache[v] \in seen[v] \cup {NoPage}

\* A store to a page with translations that are still good is noticed: the page is
\* marked as code, and no cache lets a store to it through.
StoresAreNoticed ==
    /\ \A p \in PPages \ dirtied : profile[p] # NoTranslations => p \in codePages
    /\ \A v \in VPages : writeCache[v] \notin codePages
=============================================================================
