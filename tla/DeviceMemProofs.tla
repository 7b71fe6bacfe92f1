--------------------------- MODULE DeviceMemProofs ---------------------------
(***************************************************************************)
(* DeviceMem for every finite set of memory infos, every set of processes, *)
(* addresses, requests and loads: its reference counts are exact           *)
(* (CountsExact), handles reach only what exists (HandlesLive), every      *)
(* synchronisation info has an owner while no call has failed half way     *)
(* (SyncsOwned), and a process leaves nothing behind (CleanDeath).         *)
(*                                                                         *)
(* The invariant GInv is stated on the record Now a bridge call works on,  *)
(* because a call is a composition of functions of that record, and each   *)
(* of them is shown to keep its part:                                      *)
(*   Balanced  the type, and the references of the contexts;               *)
(*   Rest      the shape of a memory info by its kind, its references, the *)
(*             table of shared synchronisation infos, exports, swap chain; *)
(*   Handles   who may have a handle;                                      *)
(*   Owned     who will free a synchronisation info.                       *)
(* Core (Balanced and Rest) also holds in the middle of a call, when a     *)
(* handle may name what was just freed; Good adds Handles.  The sweep of a *)
(* dying process is a FoldSet, and is followed one memory info at a time.  *)
(***************************************************************************)
EXTENDS DeviceMem, FiniteSetTheorems, TLAPS

(* The type of the record a bridge call works on.                          *)
Contexts == Procs \cup {Kernel}
ContextType == [live : BOOLEAN, ref : Nat, open : Nat, h : BOOLEAN, lost : Nat]
ProcType == [st : {"new", "up", "gone"}, heaps : BOOLEAN, ctx : ContextType]
MemType == [st : {"unused", "live", "freed"}, kind : Kinds, p : Procs \cup {Nobody},
            ctx : Contexts \cup {Nobody}, item : BOOLEAN, ref : Nat, exported : BOOLEAN,
            sync : Mems \cup {Disp, NoSync}, src : Mems \cup {NoMem},
            addr : Addrs \cup {Nobody, "display"}, h : BOOLEAN, refh : BOOLEAN]
SyncType == [live : BOOLEAN, ref : Nat, addr : Addrs \cup {Nobody}]
States == [proc : [Procs -> ProcType], mem : [Mems -> MemType],
           sync : [Mems \cup {Disp} -> SyncType], syncTable : [Addrs -> Mems \cup {NoSync}],
           exports : SUBSET Mems, kref : Nat]

(* The mappings of a memory info, what is in a context, the synchronisation *)
(* infos that exist and the wraps that share one.                          *)
MapsOf(s, m) == {d \in Mems : Live(s, d) /\ s.mem[d].kind = "map" /\ s.mem[d].src = m}
InContext(s, c) == {m \in Mems : Live(s, m) /\ s.mem[m].ctx = c}
BuffersOf(s, c) == {Buffer(s, m) : m \in InContext(s, c)}
LiveSyncs(s) == {y \in Mems \cup {Disp} : s.sync[y].live}
Users(s, y) == {m \in Mems : Live(s, m) /\ s.mem[m].kind = "wrap" /\ s.mem[m].sync = y}

(* What is known of a memory info by its kind.                             *)
Shape(s, m) ==
    LET r == s.mem[m] IN
    /\ r.p \in Procs /\ s.proc[r.p].st # "new"
    /\ r.kind = "alloc" => r.ctx \in {r.p, Kernel} /\ r.addr = Nobody /\ r.sync \in {m, NoSync}
    /\ r.kind = "wrap"  => r.ctx = r.p /\ r.addr # "display" /\ r.sync \in Mems
    /\ r.kind = "map"   => /\ r.ctx \in {r.p, Kernel} /\ r.addr = Nobody
                           /\ r.src \in Mems \ {m} /\ s.mem[r.src].st # "unused"
                           /\ s.mem[r.src].kind = "alloc" =>
                                /\ Live(s, r.src) /\ s.mem[r.src].exported
                                /\ r.sync = s.mem[r.src].sync
    /\ r.kind = "dc"    => r.ctx = r.p /\ r.addr = "display" /\ r.sync = Disp
    /\ r.kind = "sys"   => r.ctx = Nobody /\ r.sync = NoSync
Shapes(s) == \A m \in Mems : Live(s, m) => Shape(s, m)

(* References that are not those of mappings.                              *)
Extra(s, m) == s.mem[m].ref - Cardinality(MapsOf(s, m))
(* A mapping or shared memory has no reference of its own, the memory of   *)
(* a process has its owner's until that gave it up.                        *)
RefExact(s, m) ==
    LET r == s.mem[m] IN
    /\ r.kind \in {"map", "dc", "sys"} => Extra(s, m) = 0
    /\ r.kind = "wrap" => Extra(s, m) = 1
    /\ r.kind = "alloc" => Extra(s, m) = 1 \/ (Extra(s, m) = 0 /\ ~r.item)
Refs(s) == \A m \in Mems : Live(s, m) => RefExact(s, m)

(* The references of a context, and when there is one.                     *)
ContextExact(s, p) ==
    LET c == s.proc[p].ctx IN
    /\ c.live => c.ref = c.open + c.lost + Cardinality(BuffersOf(s, p)) /\ c.ref > 0
    /\ ~c.live => c = NoContext
    /\ c.h => c.live /\ c.open > 0
    /\ s.proc[p].st = "up" /\ InContext(s, p) # {} => c.live
    /\ s.proc[p].st # "up" => ~c.live
ContextsExact(s) == \A p \in Procs : ContextExact(s, p)
KernelExact(s) ==
    s.kref = 1 + Cardinality(LiveSyncs(s)) + Cardinality(BuffersOf(s, Kernel))

(* The table of synchronisation infos by address, and the wraps.           *)
TableExact(s) ==
    \A a \in Addrs : s.syncTable[a] # NoSync =>
        LET y == s.syncTable[a] IN
        /\ s.sync[y].live /\ s.sync[y].addr = a
        /\ s.sync[y].ref = Cardinality(Users(s, y)) /\ s.sync[y].ref > 0
        /\ s.mem[y].kind = "wrap" /\ s.mem[y].st # "unused"
WrapsShare(s) ==
    \A m \in Mems : Live(s, m) /\ s.mem[m].kind = "wrap" =>
        \E a \in Addrs : s.syncTable[a] = s.mem[m].sync
SyncsLive(s) ==
    \A m \in Mems :
        /\ Live(s, m) /\ s.mem[m].kind = "alloc" /\ s.mem[m].sync = m => s.sync[m].live
        /\ s.mem[m].st = "unused" => ~s.sync[m].live
ChainSync(s, ch) ==
    /\ s.sync[Disp].live <=> ch # Nobody
    /\ ch # Nobody => s.proc[ch].st = "up"

(* What is exported, and who may have a handle.                            *)
ExportsLive(s) ==
    \A m \in s.exports : /\ s.mem[m].st # "unused"
                         /\ s.mem[m].kind = "alloc" => Live(s, m)
                         /\ Live(s, m) => s.mem[m].exported
Handles(s, ch) ==
    \A m \in Mems :
        /\ s.mem[m].h => /\ Live(s, m) /\ s.proc[s.mem[m].p].st = "up"
                         /\ s.mem[m].kind = "dc" => ch = s.mem[m].p
                         /\ s.mem[m].kind = "alloc" => Extra(s, m) = 1
        /\ s.mem[m].refh /\ s.mem[m].kind # "dc" => s.mem[m].h

(* Who will free a synchronisation info of a memory info.                  *)
Owned(s) ==
    \A y \in Mems : s.sync[y].live =>
        \/ Live(s, y) /\ s.mem[y].kind = "alloc" /\ s.mem[y].sync = y
        \/ \E a \in Addrs : s.syncTable[a] = y

Balanced(s) == s \in States /\ ContextsExact(s) /\ KernelExact(s)
Rest(s, ch) ==
    /\ Shapes(s) /\ Refs(s) /\ ExportsLive(s)
    /\ TableExact(s) /\ WrapsShare(s) /\ SyncsLive(s) /\ ChainSync(s, ch)
Core(s, ch) == Balanced(s) /\ Rest(s, ch)
Good(s, ch) == Core(s, ch) /\ Handles(s, ch)

GInv ==
    /\ Good(Now, chain) /\ (faults = 0 => Owned(Now))
    /\ chain \in Procs \cup {Nobody} /\ load \in Loads /\ faults \in 0..load.faults

-----------------------------------------------------------------------------
USE MemsAssumption, NamesAssumption

(* The fields of a state of the memory, and that it has no other.          *)
LEMMA StateFields ==
  ASSUME NEW s \in States
  PROVE  /\ s.proc \in [Procs -> ProcType] /\ s.mem \in [Mems -> MemType]
         /\ s.sync \in [Mems \cup {Disp} -> SyncType]
         /\ s.syncTable \in [Addrs -> Mems \cup {NoSync}]
         /\ s.exports \subseteq Mems /\ s.kref \in Nat
         /\ s = [proc |-> s.proc, mem |-> s.mem, sync |-> s.sync, syncTable |-> s.syncTable,
                 exports |-> s.exports, kref |-> s.kref]
BY DEF States

(* The record of a process with another count of references on its context. *)
WithRef(r, n) ==
  [st |-> r.st, heaps |-> r.heaps,
   ctx |-> [live |-> r.ctx.live, ref |-> n, open |-> r.ctx.open, h |-> r.ctx.h,
            lost |-> r.ctx.lost]]

(* Counting a reference on its context changes nothing else of a process.  *)
LEMMA WithRefFacts ==
  ASSUME NEW r \in ProcType, NEW n \in Nat
  PROVE  /\ WithRef(r, n) \in ProcType
         /\ [r EXCEPT !.ctx.ref = n] = WithRef(r, n)
<1>1. PICK k, l, v, o, u, h, w :
        r = [st |-> k, heaps |-> l,
             ctx |-> [live |-> v, ref |-> o, open |-> u, h |-> h, lost |-> w]]
  BY DEF ProcType, ContextType
<1>2. [r EXCEPT !.ctx.ref = n] = [st |-> k, heaps |-> l,
             ctx |-> [live |-> v, ref |-> n, open |-> u, h |-> h, lost |-> w]]
  BY <1>1
<1>3. WithRef(r, n) = [st |-> k, heaps |-> l,
             ctx |-> [live |-> v, ref |-> n, open |-> u, h |-> h, lost |-> w]]
  BY <1>1 DEF WithRef
<1>4. WithRef(r, n) \in ProcType
  BY DEF WithRef, ProcType, ContextType
<1> QED BY <1>2, <1>3, <1>4

(* A step that gives a process another record.                             *)
WithProc(s, c, r) ==
  [proc |-> [s.proc EXCEPT ![c] = r], mem |-> s.mem, sync |-> s.sync,
   syncTable |-> s.syncTable, exports |-> s.exports, kref |-> s.kref]

(* A state stays one when a process gets another record.                   *)
LEMMA WithProcType ==
  ASSUME NEW s \in States, NEW c \in Procs, NEW r \in ProcType
  PROVE  WithProc(s, c, r) \in States
BY DEF WithProc, States

(* The update of a context's count, as a record.                           *)
LEMMA RefStep ==
  ASSUME NEW s \in States, NEW c \in Procs, NEW n \in Nat
  PROVE  [s EXCEPT !.proc[c].ctx.ref = n] = WithProc(s, c, WithRef(s.proc[c], n))
<1>1. PICK f, a, b, d, e, g : s = [proc |-> f, mem |-> a, sync |-> b, syncTable |-> d,
                                   exports |-> e, kref |-> g]
  BY DEF States
<1>2. c \in DOMAIN f /\ f[c] \in ProcType
  BY <1>1 DEF States
<1>3. [s EXCEPT !.proc[c].ctx.ref = n] =
        [proc |-> [f EXCEPT ![c].ctx.ref = n], mem |-> a, sync |-> b, syncTable |-> d,
                                   exports |-> e, kref |-> g]
  BY <1>1
<1>4. [f[c] EXCEPT !.ctx.ref = n] = WithRef(f[c], n)
  BY <1>2, WithRefFacts
<1>5. [f EXCEPT ![c].ctx.ref = n] = [f EXCEPT ![c] = WithRef(f[c], n)]
  BY <1>4
<1> QED BY <1>1, <1>3, <1>5 DEF WithProc

(* pvr_get_ctx counts one more on the context of a process and does        *)
(* nothing else.                                                           *)
LEMMA GetForm ==
  ASSUME NEW s \in States, NEW c \in Procs
  PROVE  pvr_get_ctx(s, c) = WithProc(s, c, WithRef(s.proc[c], s.proc[c].ctx.ref + 1))
<1>1. s.proc[c].ctx.ref + 1 \in Nat
  BY DEF States, ProcType, ContextType
<1>2. pvr_get_ctx(s, c) = [s EXCEPT !.proc[c].ctx.ref = s.proc[c].ctx.ref + 1]
  BY DEF pvr_get_ctx
<1> QED BY <1>1, <1>2, RefStep

(* A state with another field.                                             *)
WithKref(s, k) ==
  [proc |-> s.proc, mem |-> s.mem, sync |-> s.sync,
   syncTable |-> s.syncTable, exports |-> s.exports, kref |-> k]
WithMem(s, f) ==
  [proc |-> s.proc, mem |-> f, sync |-> s.sync,
   syncTable |-> s.syncTable, exports |-> s.exports, kref |-> s.kref]
WithSync(s, f) ==
  [proc |-> s.proc, mem |-> s.mem, sync |-> f,
   syncTable |-> s.syncTable, exports |-> s.exports, kref |-> s.kref]

(* The updates of the model, as records: the count of the kernel's         *)
(* context,                                                                *)
LEMMA KrefForm ==
  ASSUME NEW s \in States, NEW k
  PROVE  [s EXCEPT !.kref = k] = WithKref(s, k)
BY DEF States, WithKref

(* a memory info,                                                          *)
LEMMA MemForm ==
  ASSUME NEW s \in States, NEW m \in Mems, NEW r
  PROVE  [s EXCEPT !.mem[m] = r] = WithMem(s, [s.mem EXCEPT ![m] = r])
BY DEF States, WithMem

(* and a synchronisation info.                                             *)
LEMMA SyncForm ==
  ASSUME NEW s \in States, NEW y \in Mems \cup {Disp}, NEW r
  PROVE  [s EXCEPT !.sync[y] = r] = WithSync(s, [s.sync EXCEPT ![y] = r])
BY DEF States, WithSync

(* Each of them leads to a state.                                          *)
LEMMA WithTypes ==
  ASSUME NEW s \in States
  PROVE  /\ \A k \in Nat : WithKref(s, k) \in States
         /\ \A f \in [Mems -> MemType] : WithMem(s, f) \in States
         /\ \A f \in [Mems \cup {Disp} -> SyncType] : WithSync(s, f) \in States
BY DEF States, WithKref, WithMem, WithSync

-----------------------------------------------------------------------------
(* s and t have the same buffers but for m.                                *)
Beside(s, t, m) ==
  \A n \in Mems \ {m} : /\ Live(t, n) <=> Live(s, n)
                        /\ t.mem[n].ctx = s.mem[n].ctx /\ t.mem[n].addr = s.mem[n].addr

(* Two memory infos with one buffer were wrapped at one address in one     *)
(* context.                                                                *)
LEMMA BufferEq ==
  ASSUME NEW s, NEW m, NEW n, Buffer(s, n) = Buffer(s, m), n # m
  PROVE  s.mem[m].addr # Nobody /\ s.mem[n].addr = s.mem[m].addr /\ s.mem[n].ctx = s.mem[m].ctx
BY DEF Buffer

(* A context has finitely many buffers, and none exactly when no memory is *)
(* in it.                                                                  *)
LEMMA BuffersFinite ==
  ASSUME NEW s, NEW c
  PROVE  /\ IsFiniteSet(BuffersOf(s, c)) /\ Cardinality(BuffersOf(s, c)) \in Nat
         /\ InContext(s, c) = {} => Cardinality(BuffersOf(s, c)) = 0
         /\ Cardinality(BuffersOf(s, c)) = 0 => InContext(s, c) = {}
<1>1. IsFiniteSet(InContext(s, c))
  BY FS_Subset DEF InContext
<1>2. [m \in InContext(s, c) |-> Buffer(s, m)] \in Surjection(InContext(s, c), BuffersOf(s, c))
  BY DEF Surjection, BuffersOf
<1>3. IsFiniteSet(BuffersOf(s, c))
  BY <1>1, <1>2, FS_Surjection
<1>4. Cardinality(BuffersOf(s, c)) \in Nat
  BY <1>3, FS_CardinalityType
<1>5. InContext(s, c) = {} <=> BuffersOf(s, c) = {}
  BY DEF BuffersOf
<1> QED BY <1>3, <1>4, <1>5, FS_EmptySet

(* One more live memory info is one more buffer of its context, unless it  *)
(* shares one that is there; the buffers of every other context are as     *)
(* before.                                                                 *)
LEMMA BufferCount ==
  ASSUME NEW s, NEW t, NEW m \in Mems, NEW c \in Contexts,
         ~Live(s, m), Live(t, m), Beside(s, t, m)
  PROVE  /\ t.mem[m].ctx # c => /\ BuffersOf(t, c) = BuffersOf(s, c)
                                /\ InContext(t, c) = InContext(s, c)
         /\ t.mem[m].ctx = c =>
              /\ InContext(t, c) # {}
              /\ Cardinality(BuffersOf(t, c)) =
                   Cardinality(BuffersOf(s, c)) + (IF SharesBuffer(t, m) THEN 0 ELSE 1)
<1>1. \A n \in Mems \ {m} : Buffer(t, n) = Buffer(s, n)
  BY DEF Beside, Buffer
<1>2. CASE t.mem[m].ctx # c
  <2>1. InContext(t, c) = InContext(s, c) /\ m \notin InContext(s, c)
    BY <1>2 DEF InContext, Beside
  <2>2. \A n \in InContext(s, c) : Buffer(t, n) = Buffer(s, n)
    BY <1>1, <2>1 DEF InContext
  <2> QED BY <1>2, <2>1, <2>2 DEF BuffersOf
<1>3. CASE t.mem[m].ctx = c
  <2>1. InContext(t, c) = InContext(s, c) \cup {m} /\ m \notin InContext(s, c)
    BY <1>3 DEF InContext, Beside
  <2>2. \A n \in InContext(s, c) : Buffer(t, n) = Buffer(s, n)
    BY <1>1, <2>1 DEF InContext
  <2>3. BuffersOf(t, c) = BuffersOf(s, c) \cup {Buffer(t, m)}
    BY <2>1, <2>2 DEF BuffersOf
  <2>4. SharesBuffer(t, m) <=> Buffer(t, m) \in BuffersOf(s, c)
    <3>1. ASSUME SharesBuffer(t, m) PROVE Buffer(t, m) \in BuffersOf(s, c)
      <4>1. PICK n \in Mems \ {m} : Live(t, n) /\ Buffer(t, n) = Buffer(t, m)
        BY <3>1 DEF SharesBuffer
      <4>2. t.mem[n].ctx = c
        BY <1>3, <4>1, BufferEq
      <4>3. n \in InContext(s, c)
        BY <2>1, <4>1, <4>2 DEF InContext
      <4> QED BY <2>2, <4>1, <4>3 DEF BuffersOf
    <3>2. ASSUME Buffer(t, m) \in BuffersOf(s, c) PROVE SharesBuffer(t, m)
      <4>1. PICK n \in InContext(s, c) : Buffer(s, n) = Buffer(t, m)
        BY <3>2 DEF BuffersOf
      <4>2. n \in Mems \ {m} /\ Live(t, n) /\ t.mem[n].ctx = c
        BY <2>1, <4>1 DEF InContext
      <4>3. c # Nobody
        BY DEF Contexts, Kernel, Nobody
      <4> QED BY <2>2, <4>1, <4>2, <4>3 DEF SharesBuffer
    <3> QED BY <3>1, <3>2
  <2>5. IsFiniteSet(BuffersOf(s, c)) /\ Cardinality(BuffersOf(s, c)) \in Nat
    BY BuffersFinite
  <2>6. CASE SharesBuffer(t, m)
    <3>1. BuffersOf(t, c) = BuffersOf(s, c)
      BY <2>3, <2>4, <2>6
    <3> QED BY <1>3, <2>1, <2>5, <2>6, <3>1
  <2>7. CASE ~SharesBuffer(t, m)
    <3>1. Cardinality(BuffersOf(t, c)) = Cardinality(BuffersOf(s, c)) + 1
      BY <2>3, <2>4, <2>5, <2>7, FS_AddElement
    <3> QED BY <1>3, <2>1, <2>7, <3>1
  <2> QED BY <2>6, <2>7
<1> QED BY <1>2, <1>3

(* No process has connected, died, or won or lost a handle.                *)
Framed(s, t) ==
  \A p \in Procs : /\ t.proc[p].st = s.proc[p].st /\ t.proc[p].heaps = s.proc[p].heaps
                   /\ t.proc[p].ctx.h = s.proc[p].ctx.h

(* The buffers depend on the memory infos alone.                           *)
LEMMA SameMem ==
  ASSUME NEW s, NEW t, t.mem = s.mem, NEW c
  PROVE  BuffersOf(t, c) = BuffersOf(s, c) /\ InContext(t, c) = InContext(s, c)
<1>1. InContext(t, c) = InContext(s, c)
  BY DEF InContext, Live
<1>2. \A m \in Mems : Buffer(t, m) = Buffer(s, m)
  BY DEF Buffer
<1> QED BY <1>1, <1>2 DEF BuffersOf, InContext

(* There are finitely many live synchronisation infos.                     *)
LEMMA SyncsFinite ==
  ASSUME NEW s
  PROVE  IsFiniteSet(LiveSyncs(s)) /\ Cardinality(LiveSyncs(s)) \in Nat
<1>1. IsFiniteSet(Mems \cup {Disp})
  BY FS_AddElement
<1>2. IsFiniteSet(LiveSyncs(s))
  BY <1>1, FS_Subset DEF LiveSyncs
<1> QED BY <1>2, FS_CardinalityType

(* BM_Wrap keeps the counts of all contexts exact: the first memory info   *)
(* of a buffer takes a reference, the others take none.                    *)
LEMMA WrapBalanced ==
  ASSUME NEW s, Balanced(s), NEW m \in Mems, ~Live(s, m),
         NEW new \in MemType, new.st = "live", new.ctx \in Contexts,
         new.ctx # Kernel => s.proc[new.ctx].ctx.live,
         NEW t, t = BM_Wrap(s, m, new)
  PROVE  /\ Balanced(t) /\ Framed(s, t)
         /\ t.mem = [s.mem EXCEPT ![m] = new] /\ t.sync = s.sync
         /\ t.syncTable = s.syncTable /\ t.exports = s.exports
<1> DEFINE u == WithMem(s, [s.mem EXCEPT ![m] = new])
           c == new.ctx
<1>1. s \in States /\ s.mem \in [Mems -> MemType] /\ s.proc \in [Procs -> ProcType] /\ s.kref \in Nat
  BY DEF Balanced, States
<1>2. u = [s EXCEPT !.mem[m] = new] /\ u \in States
  BY <1>1, MemForm, WithTypes
<1>3. /\ u.mem = [s.mem EXCEPT ![m] = new] /\ u.proc = s.proc /\ u.sync = s.sync
      /\ u.syncTable = s.syncTable /\ u.exports = s.exports /\ u.kref = s.kref
  BY DEF WithMem
<1>4. u.mem[m] = new /\ \A n \in Mems \ {m} : u.mem[n] = s.mem[n]
  BY <1>1, <1>3
<1>5. Live(u, m) /\ Beside(s, u, m)
  BY <1>4 DEF Live, Beside
<1>6. t = IF SharesBuffer(u, m) THEN u ELSE pvr_get_ctx(u, c)
  BY <1>2 DEF BM_Wrap
<1> HIDE DEF u
<1>8. \A d \in Contexts : d # c => BuffersOf(u, d) = BuffersOf(s, d) /\ InContext(u, d) = InContext(s, d)
  BY <1>4, <1>5, BufferCount
<1>9. /\ InContext(u, c) # {}
      /\ Cardinality(BuffersOf(u, c)) =
           Cardinality(BuffersOf(s, c)) + (IF SharesBuffer(u, m) THEN 0 ELSE 1)
  BY <1>4, <1>5, BufferCount
<1>10. Cardinality(BuffersOf(s, c)) \in Nat /\ Cardinality(BuffersOf(s, Kernel)) \in Nat
  BY BuffersFinite
<1>11. Procs \subseteq Contexts /\ Kernel \in Contexts /\ Kernel \notin Procs
  BY DEF Contexts
<1>12. CASE SharesBuffer(u, m)
  <2>1. t = u
    BY <1>6, <1>12
  <2>2. Cardinality(BuffersOf(u, c)) = Cardinality(BuffersOf(s, c))
    BY <1>9, <1>10, <1>12
  <2>3. ASSUME NEW p \in Procs PROVE ContextExact(u, p)
    <3>1. CASE p = c
      BY <1>1, <1>3, <1>9, <2>2, <3>1, <1>11 DEF Balanced, ContextsExact, ContextExact
    <3>2. CASE p # c
      BY <1>3, <1>8, <1>11, <3>2 DEF Balanced, ContextsExact, ContextExact
    <3> QED BY <3>1, <3>2
  <2>4. KernelExact(u)
    <3>1. LiveSyncs(u) = LiveSyncs(s)
      BY <1>3 DEF LiveSyncs
    <3>2. Cardinality(BuffersOf(u, Kernel)) = Cardinality(BuffersOf(s, Kernel))
      BY <1>8, <1>11, <2>2
    <3> QED BY <1>3, <3>1, <3>2 DEF Balanced, KernelExact
  <2> QED BY <1>2, <1>3, <2>1, <2>3, <2>4 DEF Balanced, ContextsExact, Framed
<1>13. CASE ~SharesBuffer(u, m) /\ c = Kernel
  <2>1. t = WithKref(u, u.kref + 1)
    BY <1>2, <1>6, <1>13, KrefForm DEF pvr_get_ctx
  <2>2. /\ t.mem = u.mem /\ t.proc = s.proc /\ t.sync = s.sync /\ t.kref = s.kref + 1
        /\ t.syncTable = s.syncTable /\ t.exports = s.exports
    BY <1>3, <2>1 DEF WithKref
  <2>3. t \in States
    <3>1. u.kref + 1 \in Nat
      BY <1>1, <1>3
    <3> QED BY <1>2, <2>1, <3>1, WithTypes
  <2>4. ASSUME NEW p \in Procs PROVE ContextExact(t, p)
    <3>1. BuffersOf(t, p) = BuffersOf(s, p) /\ InContext(t, p) = InContext(s, p)
      BY <1>8, <1>11, <1>13, <2>2, SameMem
    <3> QED BY <2>2, <3>1 DEF Balanced, ContextsExact, ContextExact
  <2>5. KernelExact(t)
    <3>1. LiveSyncs(t) = LiveSyncs(s) /\ Cardinality(LiveSyncs(s)) \in Nat
      BY <2>2, SyncsFinite DEF LiveSyncs
    <3>2. Cardinality(BuffersOf(t, Kernel)) = Cardinality(BuffersOf(s, Kernel)) + 1
      BY <1>9, <1>13, <2>2, SameMem
    <3> QED BY <1>10, <2>2, <3>1, <3>2 DEF Balanced, KernelExact
  <2> QED BY <1>3, <2>2, <2>3, <2>4, <2>5 DEF Balanced, ContextsExact, Framed
<1>14. CASE ~SharesBuffer(u, m) /\ c # Kernel
  <2>1. c \in Procs
    BY <1>14 DEF Contexts
  <2>2. t = WithProc(u, c, WithRef(s.proc[c], s.proc[c].ctx.ref + 1))
    BY <1>2, <1>3, <1>6, <1>14, <2>1, GetForm
  <2>3. s.proc[c] \in ProcType /\ s.proc[c].ctx.ref \in Nat /\ s.proc[c].ctx.ref + 1 \in Nat
    BY <1>1, <2>1 DEF ProcType, ContextType
  <2>4. t \in States
    <3>1. WithRef(s.proc[c], s.proc[c].ctx.ref + 1) \in ProcType
      BY <2>3, WithRefFacts
    <3> QED BY <1>2, <2>1, <2>2, <3>1, WithProcType
  <2>5. /\ t.mem = u.mem /\ t.sync = s.sync /\ t.kref = s.kref
        /\ t.syncTable = s.syncTable /\ t.exports = s.exports
    BY <1>3, <2>2 DEF WithProc
  <2>6. /\ t.proc[c] = WithRef(s.proc[c], s.proc[c].ctx.ref + 1)
        /\ \A p \in Procs \ {c} : t.proc[p] = s.proc[p]
    BY <1>1, <1>3, <2>1, <2>2 DEF WithProc
  <2>7. Framed(s, t)
    BY <2>6 DEF Framed, WithRef
  <2>8. ASSUME NEW p \in Procs PROVE ContextExact(t, p)
    <3>1. CASE p # c
      <4>1. BuffersOf(t, p) = BuffersOf(s, p) /\ InContext(t, p) = InContext(s, p)
        BY <1>8, <1>11, <3>1, <2>5, SameMem
      <4> QED BY <2>6, <3>1, <4>1 DEF Balanced, ContextsExact, ContextExact
    <3>2. CASE p = c
      <4>1. Cardinality(BuffersOf(t, c)) = Cardinality(BuffersOf(s, c)) + 1
        BY <1>9, <1>14, <2>5, SameMem
      <4>2. /\ s.proc[c].ctx.live
            /\ s.proc[c].ctx.ref = s.proc[c].ctx.open + s.proc[c].ctx.lost
                                     + Cardinality(BuffersOf(s, c))
            /\ s.proc[c].ctx.h => s.proc[c].ctx.open > 0
            /\ s.proc[c].st = "up"
        BY <1>14, <2>1 DEF Balanced, ContextsExact, ContextExact
      <4>3. s.proc[c].ctx.open \in Nat /\ s.proc[c].ctx.lost \in Nat
        BY <2>3 DEF ProcType, ContextType
      <4> QED BY <1>10, <2>3, <2>6, <3>2, <4>1, <4>2, <4>3 DEF ContextExact, WithRef
    <3> QED BY <3>1, <3>2
  <2>9. KernelExact(t)
    <3>1. LiveSyncs(t) = LiveSyncs(s)
      BY <2>5 DEF LiveSyncs
    <3>2. BuffersOf(t, Kernel) = BuffersOf(s, Kernel)
      BY <1>8, <1>11, <1>14, <2>5, SameMem
    <3> QED BY <2>5, <3>1, <3>2 DEF Balanced, KernelExact
  <2> QED BY <1>3, <2>4, <2>5, <2>7, <2>8, <2>9 DEF Balanced, ContextsExact
<1> QED BY <1>12, <1>13, <1>14

(* What is left of the record of a memory info that was freed.             *)
LEMMA FreedFacts ==
  ASSUME NEW r \in MemType
  PROVE  /\ Freed(r) \in MemType /\ Freed(r).st = "freed" /\ Freed(r).kind = r.kind
         /\ Freed(r).p = r.p /\ Freed(r).h = r.h /\ Freed(r).refh = r.refh
         /\ Freed(r).item = FALSE /\ Freed(r).src = NoMem
<1>1. PICK k, p, h, rh : r.kind = k /\ r.p = p /\ r.h = h /\ r.refh = rh
  OBVIOUS
<1>2. Freed(r) = [Unused EXCEPT !.st = "freed", !.kind = k, !.p = p, !.h = h, !.refh = rh]
  BY <1>1 DEF Freed
<1>3. Freed(r) = [st |-> "freed", kind |-> k, p |-> p, ctx |-> Nobody, item |-> FALSE,
                  ref |-> 0, exported |-> FALSE, sync |-> NoSync, src |-> NoMem, addr |-> Nobody,
                  h |-> h, refh |-> rh]
  BY <1>2 DEF Unused
<1>4. k \in Kinds /\ p \in Procs \cup {Nobody} /\ h \in BOOLEAN /\ rh \in BOOLEAN
  BY <1>1 DEF MemType
<1>5. Freed(r) \in MemType
  BY <1>3, <1>4 DEF MemType
<1> QED BY <1>1, <1>3, <1>5

WithoutContext(r) == [st |-> r.st, heaps |-> r.heaps, ctx |-> NoContext]

(* BM_DestroyContextCallBack clears the context of one process and does    *)
(* nothing else.                                                           *)
LEMMA DestroyForm ==
  ASSUME NEW s \in States, NEW c \in Procs
  PROVE  /\ BM_DestroyContextCallBack(s, c) = WithProc(s, c, WithoutContext(s.proc[c]))
         /\ WithoutContext(s.proc[c]) \in ProcType
<1>1. PICK f, a, b, d, e, g : s = [proc |-> f, mem |-> a, sync |-> b, syncTable |-> d,
                                   exports |-> e, kref |-> g]
  BY DEF States
<1>2. c \in DOMAIN f /\ f[c] \in ProcType
  BY <1>1 DEF States
<1>3. [s EXCEPT !.proc[c].ctx = NoContext] =
        [proc |-> [f EXCEPT ![c].ctx = NoContext], mem |-> a, sync |-> b, syncTable |-> d,
                                   exports |-> e, kref |-> g]
  BY <1>1
<1>4. [f[c] EXCEPT !.ctx = NoContext] = WithoutContext(f[c])
  BY <1>2 DEF WithoutContext, ProcType
<1>5. [f EXCEPT ![c].ctx = NoContext] = [f EXCEPT ![c] = WithoutContext(f[c])]
  BY <1>4
<1>6. WithoutContext(f[c]) \in ProcType
  BY <1>2 DEF WithoutContext, ProcType, ContextType, NoContext
<1> QED BY <1>1, <1>3, <1>5, <1>6 DEF WithProc, BM_DestroyContextCallBack

(* pvr_put_ctx, on a context with a reference, gives one up or destroys    *)
(* the context.                                                            *)
LEMMA PutForm ==
  ASSUME NEW s \in States, NEW c \in Procs, s.proc[c].ctx.ref > 0
  PROVE  LET r == IF s.proc[c].ctx.ref = 1 THEN WithoutContext(s.proc[c])
                  ELSE WithRef(s.proc[c], s.proc[c].ctx.ref - 1)
         IN  pvr_put_ctx(s, c) = WithProc(s, c, r) /\ r \in ProcType
<1>1. s.proc[c] \in ProcType /\ s.proc[c].ctx.ref \in Nat /\ c # Kernel
  BY DEF States, ProcType, ContextType
<1>2. CASE s.proc[c].ctx.ref = 1
  BY <1>1, <1>2, DestroyForm DEF pvr_put_ctx, BM_DestroyContext
<1>3. CASE s.proc[c].ctx.ref # 1
  <2>1. s.proc[c].ctx.ref - 1 \in Nat
    BY <1>1, <1>3
  <2>2. pvr_put_ctx(s, c) = [s EXCEPT !.proc[c].ctx.ref = s.proc[c].ctx.ref - 1]
    BY <1>1, <1>3 DEF pvr_put_ctx
  <2>3. PICK n \in Nat : n = s.proc[c].ctx.ref - 1
    BY <2>1
  <2>4. pvr_put_ctx(s, c) = WithProc(s, c, WithRef(s.proc[c], n))
    BY <2>2, <2>3, RefStep
  <2>5. WithRef(s.proc[c], n) \in ProcType
    BY <1>1, WithRefFacts
  <2> QED BY <1>3, <2>3, <2>4, <2>5
<1> QED BY <1>2, <1>3

(* FreeDeviceMem keeps the counts of all contexts exact: the last memory   *)
(* info of a buffer gives its reference up, and the context goes with the  *)
(* last reference.                                                         *)
LEMMA FreeBalanced ==
  ASSUME NEW s, Balanced(s), NEW m \in Mems, Live(s, m), s.mem[m].ctx \in Contexts,
         s.mem[m].ctx # Kernel => s.proc[s.mem[m].ctx].st = "up",
         NEW t, t = FreeDeviceMem(s, m)
  PROVE  /\ Balanced(t) /\ Framed(s, t)
         /\ t.mem = [s.mem EXCEPT ![m] = Freed(s.mem[m])] /\ t.sync = s.sync
         /\ t.syncTable = s.syncTable /\ t.exports = s.exports
<1> DEFINE u == WithMem(s, [s.mem EXCEPT ![m] = Freed(s.mem[m])])
           c == s.mem[m].ctx
<1>1. s \in States /\ s.mem \in [Mems -> MemType] /\ s.proc \in [Procs -> ProcType] /\ s.kref \in Nat
  BY DEF Balanced, States
<1>2. u = [s EXCEPT !.mem[m] = Freed(@)] /\ u \in States
  <2>1. Freed(s.mem[m]) \in MemType
    BY <1>1, FreedFacts
  <2>2. [s EXCEPT !.mem[m] = Freed(@)] = [s EXCEPT !.mem[m] = Freed(s.mem[m])]
    OBVIOUS
  <2>3. PICK r \in MemType : r = Freed(s.mem[m])
    BY <2>1
  <2>4. [s EXCEPT !.mem[m] = r] = WithMem(s, [s.mem EXCEPT ![m] = r])
    BY <1>1, MemForm
  <2>5. WithMem(s, [s.mem EXCEPT ![m] = r]) \in States
    BY <1>1, WithTypes
  <2> QED BY <2>2, <2>3, <2>4, <2>5
<1>3. /\ u.mem = [s.mem EXCEPT ![m] = Freed(s.mem[m])] /\ u.proc = s.proc /\ u.sync = s.sync
      /\ u.syncTable = s.syncTable /\ u.exports = s.exports /\ u.kref = s.kref
  BY DEF WithMem
<1>4. u.mem[m].st = "freed" /\ \A n \in Mems \ {m} : u.mem[n] = s.mem[n]
  <2>1. Freed(s.mem[m]).st = "freed"
    BY <1>1, FreedFacts
  <2> QED BY <1>1, <1>3, <2>1
<1>5. ~Live(u, m) /\ Beside(u, s, m)
  BY <1>4 DEF Live, Beside
<1>6. t = IF SharesBuffer(s, m) THEN u ELSE pvr_put_ctx(u, c)
  BY <1>2 DEF FreeDeviceMem
<1> HIDE DEF u
<1>8. \A d \in Contexts : d # c => BuffersOf(u, d) = BuffersOf(s, d) /\ InContext(u, d) = InContext(s, d)
  BY <1>5, BufferCount
<1>9. /\ InContext(s, c) # {}
      /\ Cardinality(BuffersOf(s, c)) =
           Cardinality(BuffersOf(u, c)) + (IF SharesBuffer(s, m) THEN 0 ELSE 1)
  BY <1>5, BufferCount
<1>10. /\ Cardinality(BuffersOf(u, c)) \in Nat /\ Cardinality(BuffersOf(s, Kernel)) \in Nat
       /\ Cardinality(BuffersOf(u, c)) = 0 => InContext(u, c) = {}
  BY BuffersFinite
<1>11. Procs \subseteq Contexts /\ Kernel \in Contexts /\ Kernel \notin Procs
  BY DEF Contexts
<1>12. CASE SharesBuffer(s, m)
  <2>1. t = u
    BY <1>6, <1>12
  <2>2. Cardinality(BuffersOf(u, c)) = Cardinality(BuffersOf(s, c))
    BY <1>9, <1>10, <1>12
  <2>3. ASSUME NEW p \in Procs PROVE ContextExact(u, p)
    <3>1. CASE p = c
      BY <1>1, <1>3, <1>9, <2>2, <3>1, <1>11 DEF Balanced, ContextsExact, ContextExact
    <3>2. CASE p # c
      BY <1>3, <1>8, <1>11, <3>2 DEF Balanced, ContextsExact, ContextExact
    <3> QED BY <3>1, <3>2
  <2>4. KernelExact(u)
    <3>1. LiveSyncs(u) = LiveSyncs(s)
      BY <1>3 DEF LiveSyncs
    <3>2. Cardinality(BuffersOf(u, Kernel)) = Cardinality(BuffersOf(s, Kernel))
      BY <1>8, <1>11, <2>2
    <3> QED BY <1>3, <3>1, <3>2 DEF Balanced, KernelExact
  <2> QED BY <1>2, <1>3, <2>1, <2>3, <2>4 DEF Balanced, ContextsExact, Framed
<1>13. CASE ~SharesBuffer(s, m) /\ c = Kernel
  <2>1. t = WithKref(u, u.kref - 1)
    BY <1>2, <1>6, <1>13, KrefForm DEF pvr_put_ctx
  <2>2. /\ t.mem = u.mem /\ t.proc = s.proc /\ t.sync = s.sync /\ t.kref = s.kref - 1
        /\ t.syncTable = s.syncTable /\ t.exports = s.exports
    BY <1>3, <2>1 DEF WithKref
  <2>5. KernelExact(t) /\ s.kref > 0
    <3>1. LiveSyncs(t) = LiveSyncs(s) /\ Cardinality(LiveSyncs(s)) \in Nat
      BY <2>2, SyncsFinite DEF LiveSyncs
    <3>2. Cardinality(BuffersOf(s, Kernel)) = Cardinality(BuffersOf(t, Kernel)) + 1
      BY <1>9, <1>13, <2>2, SameMem
    <3>3. Cardinality(BuffersOf(t, Kernel)) \in Nat
      BY BuffersFinite
    <3> QED BY <1>1, <1>10, <2>2, <3>1, <3>2, <3>3 DEF Balanced, KernelExact
  <2>3. t \in States
    <3>1. u.kref - 1 \in Nat
      BY <1>1, <1>3, <2>5
    <3> QED BY <1>2, <2>1, <3>1, WithTypes
  <2>4. ASSUME NEW p \in Procs PROVE ContextExact(t, p)
    <3>1. BuffersOf(t, p) = BuffersOf(s, p) /\ InContext(t, p) = InContext(s, p)
      BY <1>8, <1>11, <1>13, <2>2, SameMem
    <3> QED BY <2>2, <3>1 DEF Balanced, ContextsExact, ContextExact
  <2> QED BY <1>3, <2>2, <2>3, <2>4, <2>5 DEF Balanced, ContextsExact, Framed
<1>14. CASE ~SharesBuffer(s, m) /\ c # Kernel
  <2>1. c \in Procs /\ s.proc[c] \in ProcType
    BY <1>1, <1>14 DEF Contexts
  <2> DEFINE k == s.proc[c].ctx
             r == IF k.ref = 1 THEN WithoutContext(s.proc[c]) ELSE WithRef(s.proc[c], k.ref - 1)
  <2>2. k.ref \in Nat /\ k.open \in Nat /\ k.lost \in Nat
    BY <2>1 DEF ProcType, ContextType
  <2>3. k.live /\ k.ref = k.open + k.lost + Cardinality(BuffersOf(s, c)) /\ k.ref > 0
    BY <1>9, <1>14, <2>1 DEF Balanced, ContextsExact, ContextExact
  <2>4. k.h => k.open > 0
    BY <2>1 DEF Balanced, ContextsExact, ContextExact
  <2>5. Cardinality(BuffersOf(s, c)) = Cardinality(BuffersOf(u, c)) + 1
    BY <1>9, <1>14
  <2>6. k.ref = 1 => k.open = 0 /\ k.lost = 0 /\ Cardinality(BuffersOf(u, c)) = 0
    BY <1>10, <2>2, <2>3, <2>5
  <2>7. t = WithProc(u, c, r) /\ r \in ProcType
    <3>1. u.proc[c] = s.proc[c] /\ u.proc[c].ctx.ref > 0 /\ t = pvr_put_ctx(u, c)
      BY <1>3, <1>6, <1>14, <2>3
    <3> QED BY <1>2, <2>1, <3>1, PutForm
  <2>8. t \in States
    BY <1>2, <2>1, <2>7, WithProcType
  <2>9. /\ t.mem = u.mem /\ t.sync = s.sync /\ t.kref = s.kref
        /\ t.syncTable = s.syncTable /\ t.exports = s.exports
    BY <1>3, <2>7 DEF WithProc
  <2>10. t.proc[c] = r /\ \A p \in Procs \ {c} : t.proc[p] = s.proc[p]
    BY <1>1, <1>3, <2>1, <2>7 DEF WithProc
  <2>11. k.ref = 1 => r = WithoutContext(s.proc[c]) /\ k.h = FALSE
    <3>1. k.h \in BOOLEAN
      BY <2>1 DEF ProcType, ContextType
    <3> QED BY <2>2, <2>4, <2>6, <3>1
  <2>12. k.ref # 1 => r = WithRef(s.proc[c], k.ref - 1)
    OBVIOUS
  <2> HIDE DEF r
  <2>13. r.st = s.proc[c].st /\ r.heaps = s.proc[c].heaps /\ r.ctx.h = k.h
    <3>1. CASE k.ref = 1
      <4>1. r.st = s.proc[c].st /\ r.heaps = s.proc[c].heaps /\ r.ctx = NoContext
        BY <2>11, <3>1 DEF WithoutContext
      <4>2. NoContext.h = FALSE
        BY DEF NoContext
      <4> QED BY <2>11, <3>1, <4>1, <4>2
    <3>2. CASE k.ref # 1
      BY <2>12, <3>2 DEF WithRef
    <3> QED BY <3>1, <3>2
  <2>14. Framed(s, t)
    BY <2>10, <2>13 DEF Framed
  <2>15. ASSUME NEW p \in Procs PROVE ContextExact(t, p)
    <3>1. CASE p # c
      <4>1. BuffersOf(t, p) = BuffersOf(s, p) /\ InContext(t, p) = InContext(s, p)
        BY <1>8, <1>11, <3>1, <2>9, SameMem
      <4> QED BY <2>10, <3>1, <4>1 DEF Balanced, ContextsExact, ContextExact
    <3>2. CASE p = c /\ k.ref = 1
      <4>1. InContext(t, c) = {}
        BY <1>10, <2>6, <2>9, <3>2, SameMem
      <4>2. t.proc[c].ctx = NoContext
        BY <2>10, <2>11, <3>2 DEF WithoutContext
      <4>3. NoContext.live = FALSE /\ NoContext.h = FALSE
        BY DEF NoContext
      <4> QED BY <3>2, <4>1, <4>2, <4>3 DEF ContextExact
    <3>3. CASE p = c /\ k.ref # 1
      <4>1. /\ r.ctx.live = k.live /\ r.ctx.ref = k.ref - 1 /\ r.ctx.open = k.open
            /\ r.ctx.lost = k.lost /\ r.ctx.h = k.h
        BY <2>12, <3>3 DEF WithRef
      <4>2. Cardinality(BuffersOf(t, c)) = Cardinality(BuffersOf(u, c))
        BY <2>9, SameMem
      <4>3. s.proc[c].st = "up"
        BY <1>14
      <4>4. /\ r.ctx.ref = r.ctx.open + r.ctx.lost + Cardinality(BuffersOf(t, c))
            /\ r.ctx.ref > 0 /\ r.ctx.live /\ (r.ctx.h => r.ctx.open > 0) /\ r.st = "up"
        <5>1. r.ctx.live /\ (r.ctx.h => r.ctx.open > 0) /\ r.st = "up"
          BY <2>3, <2>4, <2>13, <4>1, <4>3
        <5>2. k.ref - 1 = k.open + k.lost + Cardinality(BuffersOf(u, c)) /\ k.ref - 1 > 0
          <6> HIDE DEF k
          <6> QED BY <1>10, <2>2, <2>3, <2>5, <3>3
        <5> QED BY <4>1, <4>2, <5>1, <5>2
      <4> HIDE DEF c
      <4> QED BY <2>10, <3>3, <4>4 DEF ContextExact
    <3> QED BY <3>1, <3>2, <3>3
  <2>16. KernelExact(t)
    <3>1. LiveSyncs(t) = LiveSyncs(s)
      BY <2>9 DEF LiveSyncs
    <3>2. BuffersOf(t, Kernel) = BuffersOf(s, Kernel)
      BY <1>8, <1>11, <1>14, <2>9, SameMem
    <3> QED BY <2>9, <3>1, <3>2 DEF Balanced, KernelExact
  <2> QED BY <1>3, <2>8, <2>9, <2>14, <2>15, <2>16 DEF Balanced, ContextsExact
<1> QED BY <1>12, <1>13, <1>14

(* Memory that was not wrapped shares its buffer with nobody, so that      *)
(* AllocDeviceMem and BM_Wrap do the same for it.                          *)
LEMMA AllocForm ==
  ASSUME NEW s \in States, NEW m \in Mems, NEW new \in MemType, new.addr = Nobody
  PROVE  AllocDeviceMem(s, m, new) = BM_Wrap(s, m, new)
<1> DEFINE u == [s EXCEPT !.mem[m] = new]
<1>1. u.mem[m] = new
  BY DEF States
<1>2. ~SharesBuffer(u, m)
  <2> HIDE DEF u
  <2>1. ASSUME NEW n \in Mems \ {m}, Buffer(u, n) = Buffer(u, m) PROVE FALSE
    BY <1>1, <2>1, BufferEq
  <2> QED BY <2>1 DEF SharesBuffer
<1>3. BM_Wrap(s, m, new) = pvr_get_ctx(u, new.ctx)
  BY <1>2 DEF BM_Wrap
<1> QED BY <1>3 DEF AllocDeviceMem

(* The counts of the contexts depend on the live memory infos, their       *)
(* contexts and addresses, and the live synchronisation infos.             *)
LEMMA BalancedAlike ==
  ASSUME NEW s, Balanced(s), NEW t \in States, t.proc = s.proc, t.kref = s.kref,
         \A m \in Mems : /\ Live(t, m) <=> Live(s, m)
                         /\ t.mem[m].ctx = s.mem[m].ctx /\ t.mem[m].addr = s.mem[m].addr,
         \A y \in Mems \cup {Disp} : t.sync[y].live = s.sync[y].live
  PROVE  Balanced(t)
<1>1. \A c : InContext(t, c) = InContext(s, c)
  BY DEF InContext
<1>2. \A m \in Mems : Buffer(t, m) = Buffer(s, m)
  BY DEF Buffer
<1>3. \A c : BuffersOf(t, c) = BuffersOf(s, c)
  BY <1>1, <1>2 DEF BuffersOf, InContext
<1>4. LiveSyncs(t) = LiveSyncs(s)
  BY DEF LiveSyncs
<1>5. ContextsExact(t)
  BY <1>1, <1>3 DEF Balanced, ContextsExact, ContextExact
<1>6. KernelExact(t)
  BY <1>3, <1>4 DEF Balanced, KernelExact
<1> QED BY <1>5, <1>6 DEF Balanced

(* A step that changes only synchronisation infos and the kernel's count   *)
(* keeps the counts of the processes' contexts.                            *)
LEMMA KernelStep ==
  ASSUME NEW s, Balanced(s), NEW f \in [Mems \cup {Disp} -> SyncType], NEW k \in Nat,
         NEW t, t = WithKref(WithSync(s, f), k), KernelExact(t)
  PROVE  /\ Balanced(t) /\ t.sync = f /\ t.kref = k /\ t.proc = s.proc /\ t.mem = s.mem
         /\ t.syncTable = s.syncTable /\ t.exports = s.exports
<1>1. /\ t.sync = f /\ t.kref = k /\ t.proc = s.proc /\ t.mem = s.mem
      /\ t.syncTable = s.syncTable /\ t.exports = s.exports
  BY DEF WithKref, WithSync
<1>2. t \in States
  BY <1>1, WithTypes DEF Balanced
<1>3. ContextsExact(t)
  <2>1. \A c : BuffersOf(t, c) = BuffersOf(s, c) /\ InContext(t, c) = InContext(s, c)
    BY <1>1, SameMem
  <2> QED BY <1>1, <2>1 DEF Balanced, ContextsExact, ContextExact
<1> QED BY <1>1, <1>2, <1>3 DEF Balanced

NewSync(addr) == [live |-> TRUE, ref |-> IF addr = Nobody THEN 0 ELSE 1, addr |-> addr]

(* PVRSRVAllocSyncInfoKM takes a reference on the kernel's context for a   *)
(* synchronisation info that was not live.                                 *)
LEMMA AllocSyncBalanced ==
  ASSUME NEW s, Balanced(s), NEW y \in Mems \cup {Disp}, ~s.sync[y].live,
         NEW addr \in Addrs \cup {Nobody}, NEW t, t = PVRSRVAllocSyncInfoKM(s, y, addr)
  PROVE  /\ Balanced(t) /\ t.proc = s.proc /\ t.mem = s.mem
         /\ t.sync = [s.sync EXCEPT ![y] = NewSync(addr)]
         /\ t.syncTable = s.syncTable /\ t.exports = s.exports
<1> DEFINE f == [s.sync EXCEPT ![y] = NewSync(addr)]
           u == WithSync(s, f)
<1>1. s \in States /\ s.sync \in [Mems \cup {Disp} -> SyncType] /\ s.kref \in Nat
  BY DEF Balanced, States
<1>2. NewSync(addr) \in SyncType /\ NewSync(addr).live
  BY DEF NewSync, SyncType
<1>3. f \in [Mems \cup {Disp} -> SyncType]
  BY <1>1, <1>2
<1>4. u = [s EXCEPT !.sync[y] = NewSync(addr)] /\ u \in States /\ u.kref = s.kref
  <2>1. PICK r : r = NewSync(addr)
    OBVIOUS
  <2>2. [s EXCEPT !.sync[y] = r] = WithSync(s, [s.sync EXCEPT ![y] = r])
    BY <1>1, SyncForm
  <2>3. u \in States
    BY <1>1, <1>3, WithTypes
  <2>4. u.kref = s.kref
    BY DEF WithSync
  <2> QED BY <2>1, <2>2, <2>3, <2>4
<1>5. t = WithKref(u, s.kref + 1)
  <2>1. t = pvr_get_ctx(u, Kernel)
    BY <1>4 DEF PVRSRVAllocSyncInfoKM, NewSync
  <2>2. t = [u EXCEPT !.kref = s.kref + 1]
    BY <1>4, <2>1 DEF pvr_get_ctx
  <2> QED BY <1>4, <2>2, KrefForm
<1>6. KernelExact(t)
  <2>1. t.sync = f /\ t.mem = s.mem /\ t.kref = s.kref + 1
    BY <1>5 DEF WithKref, WithSync
  <2>2. LiveSyncs(t) = LiveSyncs(s) \cup {y} /\ y \notin LiveSyncs(s)
    BY <1>1, <1>2, <2>1 DEF LiveSyncs
  <2>3. Cardinality(LiveSyncs(t)) = Cardinality(LiveSyncs(s)) + 1
    BY <2>2, SyncsFinite, FS_AddElement
  <2>4. BuffersOf(t, Kernel) = BuffersOf(s, Kernel)
    BY <2>1, SameMem
  <2>5. Cardinality(LiveSyncs(s)) \in Nat /\ Cardinality(BuffersOf(s, Kernel)) \in Nat
    BY SyncsFinite, BuffersFinite
  <2> QED BY <2>1, <2>3, <2>4, <2>5 DEF Balanced, KernelExact
<1>7. PICK k \in Nat : k = s.kref + 1
  BY <1>1
<1>8. PICK g \in [Mems \cup {Disp} -> SyncType] : g = f
  BY <1>3
<1>9. t = WithKref(WithSync(s, g), k)
  BY <1>5, <1>7, <1>8
<1>10. /\ Balanced(t) /\ t.sync = g /\ t.proc = s.proc /\ t.mem = s.mem
       /\ t.syncTable = s.syncTable /\ t.exports = s.exports
  BY <1>6, <1>9, KernelStep
<1> QED BY <1>8, <1>10

(* PVRSRVFreeSyncInfoKM gives it up again for one that was.                *)
LEMMA FreeSyncBalanced ==
  ASSUME NEW s, Balanced(s), NEW y \in Mems \cup {Disp}, s.sync[y].live,
         NEW t, t = PVRSRVFreeSyncInfoKM(s, y)
  PROVE  /\ Balanced(t) /\ t.proc = s.proc /\ t.mem = s.mem
         /\ t.sync = [s.sync EXCEPT ![y] = NoSyncInfo]
         /\ t.syncTable = s.syncTable /\ t.exports = s.exports
<1> DEFINE f == [s.sync EXCEPT ![y] = NoSyncInfo]
           u == WithSync(s, f)
<1>1. s \in States /\ s.sync \in [Mems \cup {Disp} -> SyncType] /\ s.kref \in Nat
  BY DEF Balanced, States
<1>2. NoSyncInfo \in SyncType /\ NoSyncInfo.live = FALSE
  BY DEF NoSyncInfo, SyncType
<1>3. f \in [Mems \cup {Disp} -> SyncType]
  BY <1>1, <1>2
<1>4. u = [s EXCEPT !.sync[y] = NoSyncInfo] /\ u \in States /\ u.kref = s.kref
  <2>1. PICK r : r = NoSyncInfo
    OBVIOUS
  <2>2. [s EXCEPT !.sync[y] = r] = WithSync(s, [s.sync EXCEPT ![y] = r])
    BY <1>1, SyncForm
  <2>3. u \in States
    BY <1>1, <1>3, WithTypes
  <2>4. u.kref = s.kref
    BY DEF WithSync
  <2> QED BY <2>1, <2>2, <2>3, <2>4
<1>5. t = WithKref(u, s.kref - 1)
  <2>1. t = pvr_put_ctx(u, Kernel)
    BY <1>4 DEF PVRSRVFreeSyncInfoKM
  <2>2. t = [u EXCEPT !.kref = s.kref - 1]
    BY <1>4, <2>1 DEF pvr_put_ctx
  <2> QED BY <1>4, <2>2, KrefForm
<1>6. KernelExact(t) /\ s.kref > 0
  <2>1. t.sync = f /\ t.mem = s.mem /\ t.kref = s.kref - 1
    BY <1>5 DEF WithKref, WithSync
  <2>2. LiveSyncs(t) = LiveSyncs(s) \ {y} /\ y \in LiveSyncs(s)
    BY <1>1, <1>2, <2>1 DEF LiveSyncs
  <2>3. Cardinality(LiveSyncs(t)) = Cardinality(LiveSyncs(s)) - 1
    BY <2>2, SyncsFinite, FS_RemoveElement
  <2>4. BuffersOf(t, Kernel) = BuffersOf(s, Kernel)
    BY <2>1, SameMem
  <2>5. /\ Cardinality(LiveSyncs(s)) \in Nat /\ Cardinality(BuffersOf(s, Kernel)) \in Nat
        /\ Cardinality(LiveSyncs(t)) \in Nat
    BY SyncsFinite, BuffersFinite
  <2> QED BY <1>1, <2>1, <2>3, <2>4, <2>5 DEF Balanced, KernelExact
<1>7. PICK k \in Nat : k = s.kref - 1
  BY <1>1, <1>6
<1>8. PICK g \in [Mems \cup {Disp} -> SyncType] : g = f
  BY <1>3
<1>9. t = WithKref(WithSync(s, g), k)
  BY <1>5, <1>7, <1>8
<1>10. /\ Balanced(t) /\ t.sync = g /\ t.proc = s.proc /\ t.mem = s.mem
       /\ t.syncTable = s.syncTable /\ t.exports = s.exports
  BY <1>6, <1>9, KernelStep
<1> QED BY <1>8, <1>10

-----------------------------------------------------------------------------
(* Two records of a memory info that agree in all but the count of its     *)
(* references and its handles.                                             *)
Same(q, r) ==
  /\ q.st = r.st /\ q.kind = r.kind /\ q.p = r.p /\ q.ctx = r.ctx /\ q.item = r.item
  /\ q.exported = r.exported /\ q.sync = r.sync /\ q.src = r.src /\ q.addr = r.addr

(* The memory infos other than m are as they were, but that a source may   *)
(* have a mapping and a reference less or more.                            *)
Others(s, t, m) ==
  \A d \in Mems \ {m} : /\ Same(t.mem[d], s.mem[d])
                        /\ t.mem[d].h = s.mem[d].h /\ t.mem[d].refh = s.mem[d].refh
                        /\ Live(s, d) => Extra(t, d) = Extra(s, d)

(* A memory info has finitely many mappings.                               *)
LEMMA MapsFinite ==
  ASSUME NEW s, NEW m
  PROVE  IsFiniteSet(MapsOf(s, m)) /\ Cardinality(MapsOf(s, m)) \in Nat
<1>1. IsFiniteSet(MapsOf(s, m))
  BY FS_Subset DEF MapsOf
<1> QED BY <1>1, FS_CardinalityType

(* Freeing one memory info keeps the shapes, the references and the        *)
(* exports of the others, if no mapping of it is left where it was an      *)
(* allocation.                                                             *)
LEMMA FreedRest ==
  ASSUME NEW s \in States, NEW t \in States, NEW ch, Rest(s, ch), Framed(s, t),
         NEW m \in Mems, Live(s, m), Others(s, t, m),
         t.mem[m].st = "freed", t.mem[m].kind = s.mem[m].kind,
         s.mem[m].kind = "alloc" => MapsOf(s, m) = {} /\ m \notin t.exports,
         t.exports \subseteq s.exports
  PROVE  Shapes(t) /\ Refs(t) /\ ExportsLive(t)
<1>1. \A d \in Mems : Live(t, d) => d # m /\ Live(s, d) /\ Same(t.mem[d], s.mem[d]) /\ Extra(t, d) = Extra(s, d)
  BY DEF Live, Others, Same
<1>2. \A d \in Mems : t.mem[d].kind = s.mem[d].kind
  BY DEF Others, Same
<1>3. ASSUME NEW d \in Mems, Live(t, d) PROVE Shape(t, d)
  <2>1. Live(s, d) /\ Same(t.mem[d], s.mem[d]) /\ Shape(s, d) /\ d # m
    BY <1>1, <1>3 DEF Rest, Shapes
  <2>2. t.mem[d].p \in Procs /\ t.proc[t.mem[d].p].st # "new"
    BY <2>1 DEF Shape, Same, Framed
  <2>3. ASSUME t.mem[d].kind = "map"
        PROVE  /\ t.mem[d].src \in Mems \ {d} /\ t.mem[t.mem[d].src].st # "unused"
               /\ t.mem[t.mem[d].src].kind = "alloc" =>
                    /\ Live(t, t.mem[d].src) /\ t.mem[t.mem[d].src].exported
                    /\ t.mem[d].sync = t.mem[t.mem[d].src].sync
    <3>1. PICK x \in Mems \ {d} : /\ s.mem[d].src = x /\ t.mem[d].src = x /\ s.mem[x].st # "unused"
                                  /\ s.mem[x].kind = "alloc" =>
                                       /\ Live(s, x) /\ s.mem[x].exported /\ s.mem[d].sync = s.mem[x].sync
      BY <2>1, <2>3 DEF Shape, Same
    <3>2. CASE x = m
      <4>1. d \in MapsOf(s, m)
        BY <2>1, <2>3, <3>1, <3>2 DEF MapsOf, Same
      <4> QED BY <1>2, <3>1, <3>2, <4>1
    <3>3. CASE x # m
      BY <2>1, <3>1, <3>3 DEF Others, Same, Live
    <3> QED BY <3>2, <3>3
  <2>4. /\ t.mem[d].kind = "alloc" => t.mem[d].ctx \in {t.mem[d].p, Kernel} /\ t.mem[d].addr = Nobody
                                        /\ t.mem[d].sync \in {d, NoSync}
        /\ t.mem[d].kind = "wrap"  => t.mem[d].ctx = t.mem[d].p /\ t.mem[d].addr # "display"
                                        /\ t.mem[d].sync \in Mems
        /\ t.mem[d].kind = "map"   => t.mem[d].ctx \in {t.mem[d].p, Kernel} /\ t.mem[d].addr = Nobody
        /\ t.mem[d].kind = "dc"    => t.mem[d].ctx = t.mem[d].p /\ t.mem[d].addr = "display"
                                        /\ t.mem[d].sync = Disp
        /\ t.mem[d].kind = "sys"   => t.mem[d].ctx = Nobody /\ t.mem[d].sync = NoSync
    BY <2>1 DEF Shape, Same
  <2> QED BY <2>2, <2>3, <2>4 DEF Shape
<1>4. ASSUME NEW d \in Mems, Live(t, d) PROVE RefExact(t, d)
  <2>1. Live(s, d) /\ Same(t.mem[d], s.mem[d]) /\ RefExact(s, d) /\ Extra(t, d) = Extra(s, d)
    BY <1>1, <1>4 DEF Rest, Refs
  <2> QED BY <2>1 DEF RefExact, Same
<1>5. ExportsLive(t)
  <2> SUFFICES ASSUME NEW d \in t.exports
               PROVE  /\ t.mem[d].st # "unused"
                      /\ t.mem[d].kind = "alloc" => Live(t, d)
                      /\ Live(t, d) => t.mem[d].exported
    BY DEF ExportsLive
  <2>1. d \in Mems /\ d \in s.exports
    BY DEF States
  <2>2. /\ s.mem[d].st # "unused"
        /\ s.mem[d].kind = "alloc" => Live(s, d)
        /\ Live(s, d) => s.mem[d].exported
    BY <2>1 DEF Rest, ExportsLive
  <2>3. CASE d = m
    BY <2>3 DEF Live
  <2>4. CASE d # m
    <3>1. Same(t.mem[d], s.mem[d])
      BY <2>1, <2>4 DEF Others
    <3> QED BY <2>2, <3>1 DEF Same, Live
  <2> QED BY <2>3, <2>4
<1> QED BY <1>3, <1>4, <1>5 DEF Shapes, Refs

NotWrap(s, m) == ~(Live(s, m) /\ s.mem[m].kind = "wrap")

(* A step on a memory info that is no wrap keeps who shares which          *)
(* synchronisation info.                                                   *)
LEMMA SyncsKept ==
  ASSUME NEW s \in States, NEW t \in States, NEW ch \in Procs \cup {Nobody}, Rest(s, ch),
         \A p \in Procs : t.proc[p].st = s.proc[p].st,
         NEW m \in Mems, Others(s, t, m), NotWrap(s, m), NotWrap(t, m),
         \A a \in Addrs : s.syncTable[a] # m,
         t.syncTable = s.syncTable,
         \A y \in (Mems \cup {Disp}) \ {m} : t.sync[y] = s.sync[y],
         t.mem[m].st # "unused",
         Live(t, m) /\ t.mem[m].kind = "alloc" /\ t.mem[m].sync = m => t.sync[m].live
  PROVE  /\ TableExact(t) /\ WrapsShare(t) /\ SyncsLive(t) /\ ChainSync(t, ch)
         /\ Owned(s) /\ (t.sync[m].live => /\ Live(t, m) /\ t.mem[m].kind = "alloc"
                                           /\ t.mem[m].sync = m) => Owned(t)
<1>0. \A d \in Mems \ {m} : Same(t.mem[d], s.mem[d])
  BY DEF Others
<1>1. \A y : Users(t, y) = Users(s, y)
  BY <1>0 DEF Users, Same, Live, NotWrap
<1>2. TableExact(t)
  <2> SUFFICES ASSUME NEW a \in Addrs, t.syncTable[a] # NoSync
               PROVE  LET y == t.syncTable[a] IN
                      /\ t.sync[y].live /\ t.sync[y].addr = a
                      /\ t.sync[y].ref = Cardinality(Users(t, y)) /\ t.sync[y].ref > 0
                      /\ t.mem[y].kind = "wrap" /\ t.mem[y].st # "unused"
    BY DEF TableExact
  <2>1. PICK y \in Mems : y = s.syncTable[a] /\ y = t.syncTable[a]
    BY DEF States
  <2>2. y # m /\ t.sync[y] = s.sync[y] /\ Same(t.mem[y], s.mem[y])
    BY <1>0, <2>1
  <2>3. /\ s.sync[y].live /\ s.sync[y].addr = a
        /\ s.sync[y].ref = Cardinality(Users(s, y)) /\ s.sync[y].ref > 0
        /\ s.mem[y].kind = "wrap" /\ s.mem[y].st # "unused"
    BY <2>1 DEF Rest, TableExact
  <2> QED BY <1>1, <2>1, <2>2, <2>3 DEF Same
<1>3. WrapsShare(t)
  <2> SUFFICES ASSUME NEW d \in Mems, Live(t, d), t.mem[d].kind = "wrap"
               PROVE  \E a \in Addrs : t.syncTable[a] = t.mem[d].sync
    BY DEF WrapsShare
  <2>1. d # m
    BY DEF NotWrap
  <2>2. Same(t.mem[d], s.mem[d])
    BY <1>0, <2>1
  <2>3. Live(s, d) /\ s.mem[d].kind = "wrap" /\ s.mem[d].sync = t.mem[d].sync
    BY <2>2 DEF Same, Live
  <2>4. \E a \in Addrs : s.syncTable[a] = s.mem[d].sync
    BY <2>3 DEF Rest, WrapsShare
  <2> QED BY <2>3, <2>4
<1>4. SyncsLive(t)
  <2> SUFFICES ASSUME NEW d \in Mems
               PROVE  /\ Live(t, d) /\ t.mem[d].kind = "alloc" /\ t.mem[d].sync = d => t.sync[d].live
                      /\ t.mem[d].st = "unused" => ~t.sync[d].live
    BY DEF SyncsLive
  <2>1. CASE d = m
    BY <2>1
  <2>2. CASE d # m
    <3>1. t.sync[d] = s.sync[d] /\ Same(t.mem[d], s.mem[d])
      BY <1>0, <2>2
    <3> QED BY <3>1 DEF Rest, SyncsLive, Same, Live
  <2> QED BY <2>1, <2>2
<1>5. ChainSync(t, ch)
  <2>1. t.sync[Disp] = s.sync[Disp]
    BY DEF Disp
  <2> QED BY <2>1 DEF Rest, ChainSync
<1>6. ASSUME Owned(s), t.sync[m].live => Live(t, m) /\ t.mem[m].kind = "alloc" /\ t.mem[m].sync = m
      PROVE  Owned(t)
  <2> SUFFICES ASSUME NEW y \in Mems, t.sync[y].live
               PROVE  \/ Live(t, y) /\ t.mem[y].kind = "alloc" /\ t.mem[y].sync = y
                      \/ \E a \in Addrs : t.syncTable[a] = y
    BY DEF Owned
  <2>1. CASE y = m
    BY <1>6, <2>1
  <2>2. CASE y # m
    <3>1. t.sync[y] = s.sync[y] /\ Same(t.mem[y], s.mem[y])
      BY <1>0, <2>2
    <3> QED BY <1>6, <3>1 DEF Owned, Same, Live
  <2> QED BY <2>1, <2>2
<1> QED BY <1>2, <1>3, <1>4, <1>5, <1>6

(* Who else has references on what, when m goes or comes.                  *)
LEMMA MapsKept ==
  ASSUME NEW s, NEW t, NEW m \in Mems, NEW d,
         \A n \in Mems \ {m} : Same(t.mem[n], s.mem[n]),
         ~(Live(s, m) /\ s.mem[m].kind = "map" /\ s.mem[m].src = d),
         ~(Live(t, m) /\ t.mem[m].kind = "map" /\ t.mem[m].src = d)
  PROVE  MapsOf(t, d) = MapsOf(s, d)
<1>1. ASSUME NEW n \in Mems PROVE n \in MapsOf(t, d) <=> n \in MapsOf(s, d)
  <2>1. CASE n = m
    BY <2>1 DEF MapsOf
  <2>2. CASE n # m
    <3>1. Same(t.mem[n], s.mem[n])
      BY <2>2
    <3> QED BY <3>1 DEF MapsOf, Same, Live
  <2> QED BY <2>1, <2>2
<1> QED BY <1>1 DEF MapsOf

(* Only a wrap puts its synchronisation info into the table.               *)
LEMMA NotInTable ==
  ASSUME NEW s \in States, TableExact(s), NEW m \in Mems,
         s.mem[m].st = "unused" \/ s.mem[m].kind # "wrap"
  PROVE  \A a \in Addrs : s.syncTable[a] # m
BY DEF TableExact, NoSync

-----------------------------------------------------------------------------
(* What freeing m does to the others, and what is left of m.               *)
Released(s, t, m) ==
  /\ Framed(s, t) /\ Others(s, t, m)
  /\ t.mem[m].kind = s.mem[m].kind /\ t.mem[m].p = s.mem[m].p
  /\ t.mem[m].h = s.mem[m].h /\ t.mem[m].refh = s.mem[m].refh
  /\ \/ t.mem[m].st = "freed"
     \/ s.mem[m].kind = "alloc" /\ Live(t, m) /\ ~t.mem[m].item /\ MapsOf(t, m) # {}
          /\ t.mem[m].src = s.mem[m].src

(* What the core of the invariant says of the fields of a state.           *)
LEMMA CoreFields ==
  ASSUME NEW s, NEW ch, Core(s, ch)
  PROVE  /\ Balanced(s) /\ Rest(s, ch) /\ s \in States /\ s.mem \in [Mems -> MemType]
         /\ s.proc \in [Procs -> ProcType] /\ s.sync \in [Mems \cup {Disp} -> SyncType]
         /\ s.syncTable \in [Addrs -> Mems \cup {NoSync}] /\ s.exports \subseteq Mems
BY DEF Core, Balanced, States

(* Free m from a state u that is s but for what m itself and its own       *)
(* synchronisation info hold.                                              *)
LEMMA FreeFrom ==
  ASSUME NEW s, NEW ch \in Procs \cup {Nobody}, Core(s, ch), NEW m \in Mems, Live(s, m),
         s.proc[s.mem[m].p].st = "up", s.mem[m].kind # "wrap", s.mem[m].kind # "map",
         s.mem[m].ctx \in {s.mem[m].p, Kernel},
         NEW u, s.mem[m].kind = "alloc" => MapsOf(s, m) = {} /\ m \notin u.exports,
         Balanced(u), u.proc = s.proc, u.syncTable = s.syncTable,
         u.exports \subseteq s.exports,
         \A d \in Mems \ {m} : u.mem[d] = s.mem[d],
         Live(u, m), u.mem[m].ctx = s.mem[m].ctx,
         u.mem[m].kind = s.mem[m].kind, u.mem[m].p = s.mem[m].p,
         u.mem[m].h = s.mem[m].h, u.mem[m].refh = s.mem[m].refh,
         \A y \in (Mems \cup {Disp}) \ {m} : u.sync[y] = s.sync[y],
         Owned(s) => ~u.sync[m].live,
         NEW t, t = FreeDeviceMem(u, m)
  PROVE  Core(t, ch) /\ Released(s, t, m) /\ (Owned(s) => Owned(t))
<1>1. /\ Balanced(s) /\ Rest(s, ch) /\ s \in States /\ s.mem \in [Mems -> MemType]
      /\ s.proc \in [Procs -> ProcType]
  BY CoreFields
<1>2. Shape(s, m) /\ s.mem[m].p \in Procs
  BY <1>1 DEF Rest, Shapes, Shape
<1>3. u.mem[m].ctx \in Contexts /\ (u.mem[m].ctx # Kernel => u.proc[u.mem[m].ctx].st = "up")
  BY <1>2 DEF Contexts
<1>4. /\ Balanced(t) /\ Framed(u, t)
      /\ t.mem = [u.mem EXCEPT ![m] = Freed(u.mem[m])] /\ t.sync = u.sync
      /\ t.syncTable = u.syncTable /\ t.exports = u.exports
  BY <1>3, FreeBalanced
<1>5. u.mem \in [Mems -> MemType] /\ t \in States
  BY <1>4 DEF Balanced, States
<1>6. /\ t.mem[m].st = "freed" /\ t.mem[m].kind = s.mem[m].kind /\ t.mem[m].p = s.mem[m].p
      /\ t.mem[m].h = s.mem[m].h /\ t.mem[m].refh = s.mem[m].refh
  <2>1. t.mem[m] = Freed(u.mem[m])
    BY <1>4, <1>5
  <2>2. u.mem[m] \in MemType
    BY <1>5
  <2> QED BY <2>1, <2>2, FreedFacts
<1>7. \A d \in Mems \ {m} : t.mem[d] = s.mem[d]
  BY <1>4, <1>5
<1>8. \A d \in Mems \ {m} : Same(t.mem[d], s.mem[d])
  BY <1>7 DEF Same
<1>9. \A d \in Mems \ {m} : Extra(t, d) = Extra(s, d)
  <2> TAKE d \in Mems \ {m}
  <2>0. ~Live(t, m)
    BY <1>6 DEF Live
  <2>1. MapsOf(t, d) = MapsOf(s, d)
    BY <1>8, <2>0, MapsKept
  <2> QED BY <1>7, <2>1 DEF Extra
<1>10. Others(s, t, m) /\ Framed(s, t)
  BY <1>4, <1>7, <1>8, <1>9 DEF Others, Framed
<1>11. Shapes(t) /\ Refs(t) /\ ExportsLive(t)
  BY <1>1, <1>4, <1>5, <1>6, <1>10, FreedRest
<1>12. \A a \in Addrs : s.syncTable[a] # m
  BY <1>1, NotInTable DEF Rest
<1>13. NotWrap(s, m) /\ NotWrap(t, m) /\ ~Live(t, m)
  BY <1>6 DEF NotWrap, Live
<1>14. \A p \in Procs : t.proc[p].st = s.proc[p].st
  BY <1>10 DEF Framed
<1>15. /\ t.syncTable = s.syncTable /\ t.mem[m].st # "unused"
       /\ \A y \in (Mems \cup {Disp}) \ {m} : t.sync[y] = s.sync[y]
  BY <1>4, <1>6
<1>16. /\ TableExact(t) /\ WrapsShare(t) /\ SyncsLive(t) /\ ChainSync(t, ch)
       /\ Owned(s) /\ (t.sync[m].live => /\ Live(t, m) /\ t.mem[m].kind = "alloc"
                                         /\ t.mem[m].sync = m) => Owned(t)
  BY <1>1, <1>5, <1>10, <1>12, <1>13, <1>14, <1>15, SyncsKept
<1>17. Owned(s) => Owned(t)
  BY <1>4, <1>16
<1>18. Released(s, t, m)
  BY <1>6, <1>10 DEF Released
<1> QED BY <1>4, <1>11, <1>16, <1>17, <1>18 DEF Core, Rest

(* Unmapping device class memory keeps the core of the invariant.          *)
LEMMA FreesDc ==
  ASSUME NEW s, NEW ch \in Procs \cup {Nobody}, Core(s, ch), NEW m \in Mems, Live(s, m),
         s.proc[s.mem[m].p].st = "up", s.mem[m].kind = "dc",
         NEW t, t = UnmapDeviceClassMemoryCallBack(s, m)
  PROVE  Core(t, ch) /\ Released(s, t, m) /\ (Owned(s) => Owned(t))
<1>1. Balanced(s) /\ Rest(s, ch) /\ s \in States
  BY CoreFields
<1>2. Shape(s, m)
  BY <1>1 DEF Rest, Shapes
<1>3. s.mem[m].ctx = s.mem[m].p
  BY <1>2 DEF Shape
<1>4. \A a \in Addrs : s.syncTable[a] # m
  BY <1>1, NotInTable DEF Rest
<1>5. Owned(s) => ~s.sync[m].live
  BY <1>4 DEF Owned
<1>6. t = FreeDeviceMem(s, m)
  BY DEF UnmapDeviceClassMemoryCallBack
<1> QED BY <1>1, <1>3, <1>5, <1>6, FreeFrom

(* The record of a memory info whose owner has given up its reference.     *)
GivenUp(r) ==
  [st |-> r.st, kind |-> r.kind, p |-> r.p, ctx |-> r.ctx, item |-> FALSE, ref |-> r.ref - 1,
   exported |-> r.exported, sync |-> r.sync, src |-> r.src, addr |-> r.addr,
   h |-> r.h, refh |-> r.refh]

(* The first assignments of FreeDeviceMemCallBack, as a record.            *)
LEMMA GivenUpForm ==
  ASSUME NEW s \in States, NEW m \in Mems, s.mem[m].ref > 0
  PROVE  /\ [s EXCEPT !.mem[m].ref = @ - 1, !.mem[m].item = FALSE]
              = WithMem(s, [s.mem EXCEPT ![m] = GivenUp(s.mem[m])])
         /\ GivenUp(s.mem[m]) \in MemType
<1>1. PICK f, a, b, d, e, g : s = [proc |-> f, mem |-> a, sync |-> b, syncTable |-> d,
                                   exports |-> e, kref |-> g]
  BY DEF States
<1>2. m \in DOMAIN a /\ a[m] \in MemType /\ a[m] = s.mem[m]
  BY <1>1 DEF States
<1>3. PICK st, kind, p, ctx, item, ref, ex, sy, src, ad, h, rh :
        a[m] = [st |-> st, kind |-> kind, p |-> p, ctx |-> ctx, item |-> item, ref |-> ref,
                exported |-> ex, sync |-> sy, src |-> src, addr |-> ad, h |-> h, refh |-> rh]
  BY <1>2 DEF MemType
<1>4. [s EXCEPT !.mem[m].ref = @ - 1, !.mem[m].item = FALSE] =
        [proc |-> f, mem |-> [a EXCEPT ![m].ref = @ - 1, ![m].item = FALSE], sync |-> b,
         syncTable |-> d, exports |-> e, kref |-> g]
  <2>1. PICK x : x = [a EXCEPT ![m].ref = @ - 1]
    OBVIOUS
  <2>2. PICK y : y = [s EXCEPT !.mem[m].ref = @ - 1]
    OBVIOUS
  <2>3. y = [proc |-> f, mem |-> x, sync |-> b, syncTable |-> d, exports |-> e, kref |-> g]
    BY <1>1, <2>1, <2>2
  <2>4. [y EXCEPT !.mem[m].item = FALSE] =
        [proc |-> f, mem |-> [x EXCEPT ![m].item = FALSE], sync |-> b,
         syncTable |-> d, exports |-> e, kref |-> g]
    <3>1. PICK w : w = FALSE
      OBVIOUS
    <3>2. [y EXCEPT !.mem[m].item = w] =
            [proc |-> f, mem |-> [x EXCEPT ![m].item = w], sync |-> b,
             syncTable |-> d, exports |-> e, kref |-> g]
      BY <2>3
    <3> QED BY <3>1, <3>2, Zenon
  <2>5. [s EXCEPT !.mem[m].ref = @ - 1, !.mem[m].item = FALSE] = [y EXCEPT !.mem[m].item = FALSE]
    BY <2>2, Zenon
  <2>6. [a EXCEPT ![m].ref = @ - 1, ![m].item = FALSE] = [x EXCEPT ![m].item = FALSE]
    BY <2>1, Zenon
  <2> QED BY <2>4, <2>5, <2>6
<1>5. GivenUp(a[m]) =
               [st |-> st, kind |-> kind, p |-> p, ctx |-> ctx, item |-> FALSE, ref |-> ref - 1,
                exported |-> ex, sync |-> sy, src |-> src, addr |-> ad, h |-> h, refh |-> rh]
  BY <1>3 DEF GivenUp
<1>6. [a EXCEPT ![m].ref = @ - 1, ![m].item = FALSE] = [a EXCEPT ![m] = GivenUp(a[m])]
  <2>1. PICK x : x = [a EXCEPT ![m].ref = @ - 1]
    OBVIOUS
  <2>2. x[m] = [st |-> st, kind |-> kind, p |-> p, ctx |-> ctx, item |-> item, ref |-> ref - 1,
                exported |-> ex, sync |-> sy, src |-> src, addr |-> ad, h |-> h, refh |-> rh]
    BY <1>2, <1>3, <2>1
  <2>3. [x[m] EXCEPT !.item = FALSE] = GivenUp(a[m])
    <3>1. PICK w : w = FALSE
      OBVIOUS
    <3>2. [x[m] EXCEPT !.item = w] =
               [st |-> st, kind |-> kind, p |-> p, ctx |-> ctx, item |-> w, ref |-> ref - 1,
                exported |-> ex, sync |-> sy, src |-> src, addr |-> ad, h |-> h, refh |-> rh]
      BY <2>2
    <3> QED BY <1>5, <3>1, <3>2, Zenon
  <2>4. [x EXCEPT ![m].item = FALSE] = [x EXCEPT ![m] = GivenUp(a[m])]
    BY <2>3
  <2>5. [x EXCEPT ![m] = GivenUp(a[m])] = [a EXCEPT ![m] = GivenUp(a[m])]
    BY <2>1
  <2> QED BY <2>1, <2>4, <2>5
<1>7. GivenUp(s.mem[m]) \in MemType
  BY <1>2 DEF GivenUp, MemType
<1> QED BY <1>1, <1>2, <1>4, <1>6, <1>7 DEF WithMem

(* A memory info that stays, or is exported, keeps its shape.              *)
LEMMA ShapesKept ==
  ASSUME NEW s \in States, NEW t, Shapes(s),
         \A p \in Procs : t.proc[p].st = s.proc[p].st,
         \A d \in Mems : /\ t.mem[d].st = s.mem[d].st /\ t.mem[d].kind = s.mem[d].kind
                         /\ t.mem[d].p = s.mem[d].p /\ t.mem[d].ctx = s.mem[d].ctx
                         /\ t.mem[d].sync = s.mem[d].sync /\ t.mem[d].src = s.mem[d].src
                         /\ t.mem[d].addr = s.mem[d].addr
                         /\ s.mem[d].exported => t.mem[d].exported
  PROVE  Shapes(t)
<1> SUFFICES ASSUME NEW d \in Mems, Live(t, d) PROVE Shape(t, d)
  BY DEF Shapes
<1>1. Live(s, d) /\ Shape(s, d)
  BY DEF Live, Shapes
<1>2. t.mem[d].p \in Procs /\ t.proc[t.mem[d].p].st # "new"
  BY <1>1 DEF Shape
<1>3. ASSUME t.mem[d].kind = "map"
      PROVE  /\ t.mem[d].src \in Mems \ {d} /\ t.mem[t.mem[d].src].st # "unused"
             /\ t.mem[t.mem[d].src].kind = "alloc" =>
                  /\ Live(t, t.mem[d].src) /\ t.mem[t.mem[d].src].exported
                  /\ t.mem[d].sync = t.mem[t.mem[d].src].sync
  <2>1. PICK x \in Mems \ {d} : /\ s.mem[d].src = x /\ t.mem[d].src = x /\ s.mem[x].st # "unused"
                                /\ s.mem[x].kind = "alloc" =>
                                     /\ Live(s, x) /\ s.mem[x].exported /\ s.mem[d].sync = s.mem[x].sync
    BY <1>1, <1>3 DEF Shape
  <2> QED BY <2>1 DEF Live
<1>4. /\ t.mem[d].kind = "alloc" => t.mem[d].ctx \in {t.mem[d].p, Kernel} /\ t.mem[d].addr = Nobody
                                      /\ t.mem[d].sync \in {d, NoSync}
      /\ t.mem[d].kind = "wrap"  => t.mem[d].ctx = t.mem[d].p /\ t.mem[d].addr # "display"
                                      /\ t.mem[d].sync \in Mems
      /\ t.mem[d].kind = "map"   => t.mem[d].ctx \in {t.mem[d].p, Kernel} /\ t.mem[d].addr = Nobody
      /\ t.mem[d].kind = "dc"    => t.mem[d].ctx = t.mem[d].p /\ t.mem[d].addr = "display"
                                      /\ t.mem[d].sync = Disp
      /\ t.mem[d].kind = "sys"   => t.mem[d].ctx = Nobody /\ t.mem[d].sync = NoSync
  BY <1>1 DEF Shape
<1> QED BY <1>2, <1>3, <1>4 DEF Shape

WithExports(s, e) ==
  [proc |-> s.proc, mem |-> s.mem, sync |-> s.sync,
   syncTable |-> s.syncTable, exports |-> e, kref |-> s.kref]

(* Freeing an allocation keeps the core: with mappings left only the       *)
(* owner's reference and the item go, without any the memory goes with its *)
(* synchronisation info and its export.                                    *)
LEMMA FreesAlloc ==
  ASSUME NEW s, NEW ch \in Procs \cup {Nobody}, Core(s, ch), NEW m \in Mems, Live(s, m),
         s.proc[s.mem[m].p].st = "up", s.mem[m].kind = "alloc", Extra(s, m) = 1,
         NEW t, t = FreeDeviceMemCallBack(s, m)
  PROVE  Core(t, ch) /\ Released(s, t, m) /\ (Owned(s) => Owned(t))
<1>1. /\ Balanced(s) /\ Rest(s, ch) /\ s \in States /\ s.mem \in [Mems -> MemType]
      /\ s.proc \in [Procs -> ProcType] /\ s.sync \in [Mems \cup {Disp} -> SyncType]
      /\ s.exports \subseteq Mems
  BY CoreFields
<1>2. Shape(s, m)
  BY <1>1 DEF Rest, Shapes
<1>3. s.mem[m].ctx \in {s.mem[m].p, Kernel} /\ s.mem[m].sync \in {m, NoSync}
  BY <1>2 DEF Shape
<1>4. /\ s.mem[m].ref = 1 + Cardinality(MapsOf(s, m)) /\ s.mem[m].ref > 0 /\ s.mem[m].ref \in Nat
      /\ IsFiniteSet(MapsOf(s, m)) /\ Cardinality(MapsOf(s, m)) \in Nat
  <2>1. s.mem[m].ref \in Nat
    BY <1>1 DEF MemType
  <2> QED BY <2>1, MapsFinite DEF Extra
<1>5. \A a \in Addrs : s.syncTable[a] # m
  BY <1>1, NotInTable DEF Rest
<1> DEFINE g == GivenUp(s.mem[m])
           w == WithMem(s, [s.mem EXCEPT ![m] = g])
           u == IF w.mem[m].exported THEN [w EXCEPT !.exports = @ \ {m}] ELSE w
           v == IF w.mem[m].sync = NoSync THEN u ELSE PVRSRVFreeSyncInfoKM(u, w.mem[m].sync)
<1>6. w = [s EXCEPT !.mem[m].ref = @ - 1, !.mem[m].item = FALSE] /\ g \in MemType
  BY <1>1, <1>4, GivenUpForm
<1>7. t = IF w.mem[m].exported /\ w.mem[m].ref # 0 THEN w ELSE FreeDeviceMem(v, m)
  <2> HIDE DEF w, g
  <2>1. PICK x : x = [s EXCEPT !.mem[m].ref = @ - 1, !.mem[m].item = FALSE]
    OBVIOUS
  <2>2. x = w
    BY <1>6, <2>1
  <2>3. FreeDeviceMemCallBack(s, m) =
          LET ux == IF x.mem[m].exported THEN [x EXCEPT !.exports = @ \ {m}] ELSE x
              vx == IF x.mem[m].sync = NoSync THEN ux ELSE PVRSRVFreeSyncInfoKM(ux, x.mem[m].sync)
          IN  IF x.mem[m].exported /\ x.mem[m].ref # 0 THEN x ELSE FreeDeviceMem(vx, m)
    BY <2>1 DEF FreeDeviceMemCallBack
  <2> QED BY <2>2, <2>3
<1>8. w \in States
  BY <1>1, <1>6, WithTypes
<1>9. /\ w.proc = s.proc /\ w.sync = s.sync /\ w.syncTable = s.syncTable
      /\ w.exports = s.exports /\ w.kref = s.kref /\ w.mem = [s.mem EXCEPT ![m] = g]
  BY DEF WithMem
<1>10. w.mem[m] = g /\ \A d \in Mems \ {m} : w.mem[d] = s.mem[d]
  BY <1>1, <1>9
<1>11. /\ g.st = s.mem[m].st /\ g.kind = s.mem[m].kind /\ g.p = s.mem[m].p /\ g.ctx = s.mem[m].ctx
       /\ g.ref = s.mem[m].ref - 1 /\ g.exported = s.mem[m].exported /\ g.src = s.mem[m].src
       /\ g.sync = s.mem[m].sync /\ g.addr = s.mem[m].addr /\ g.h = s.mem[m].h
       /\ g.refh = s.mem[m].refh /\ ~g.item
  BY DEF GivenUp
<1> HIDE DEF g, w
<1>12. Balanced(w)
  <2>1. \A d \in Mems : /\ Live(w, d) <=> Live(s, d)
                        /\ w.mem[d].ctx = s.mem[d].ctx /\ w.mem[d].addr = s.mem[d].addr
    BY <1>10, <1>11 DEF Live
  <2> QED BY <1>1, <1>8, <1>9, <2>1, BalancedAlike
<1>13. CASE w.mem[m].exported /\ w.mem[m].ref # 0
  <2>1. t = w
    BY <1>7, <1>13
  <2>2. \A d \in Mems \ {m} : Same(w.mem[d], s.mem[d])
    BY <1>10 DEF Same
  <2>3. \A d : MapsOf(w, d) = MapsOf(s, d)
    BY <1>10, <1>11, <2>2, MapsKept
  <2>4. Others(s, w, m) /\ Framed(s, w)
    BY <1>9, <1>10, <2>2, <2>3 DEF Others, Framed, Extra
  <2>5. Extra(w, m) = 0 /\ MapsOf(w, m) # {}
    <3>1. Cardinality(MapsOf(s, m)) # 0
      BY <1>4, <1>10, <1>11, <1>13
    <3>2. MapsOf(s, m) # {}
      BY <3>1, FS_EmptySet
    <3> QED BY <1>4, <1>10, <1>11, <2>3, <3>2 DEF Extra
  <2>6. Shapes(w)
    BY <1>1, <1>9, <1>10, <1>11, ShapesKept DEF Rest
  <2>7. Refs(w)
    <3> SUFFICES ASSUME NEW d \in Mems, Live(w, d) PROVE RefExact(w, d)
      BY DEF Refs
    <3>1. CASE d = m
      BY <1>10, <1>11, <2>5, <3>1 DEF RefExact
    <3>2. CASE d # m
      <4>1. w.mem[d] = s.mem[d] /\ Live(s, d) /\ Extra(w, d) = Extra(s, d) /\ RefExact(s, d)
        BY <1>1, <1>10, <2>4, <3>2 DEF Live, Others, Rest, Refs
      <4> QED BY <4>1 DEF RefExact
    <3> QED BY <3>1, <3>2
  <2>8. ExportsLive(w)
    <3>1. \A d \in Mems : /\ w.mem[d].st = s.mem[d].st /\ w.mem[d].kind = s.mem[d].kind
                          /\ w.mem[d].exported = s.mem[d].exported
      BY <1>10, <1>11
    <3> QED BY <1>1, <1>9, <3>1 DEF Rest, ExportsLive, Live
  <2>9. Live(w, m)
    BY <1>10, <1>11 DEF Live
  <2>10. NotWrap(s, m) /\ NotWrap(w, m)
    BY <1>10, <1>11 DEF NotWrap
  <2>11. w.mem[m].st # "unused" /\ \A p \in Procs : w.proc[p].st = s.proc[p].st
    BY <1>9, <2>9 DEF Live
  <2>12. w.mem[m].sync = m => w.sync[m].live
    BY <1>1, <1>9, <1>10, <1>11 DEF Rest, SyncsLive
  <2>13. /\ TableExact(w) /\ WrapsShare(w) /\ SyncsLive(w) /\ ChainSync(w, ch)
         /\ Owned(s) /\ (w.sync[m].live => /\ Live(w, m) /\ w.mem[m].kind = "alloc"
                                           /\ w.mem[m].sync = m) => Owned(w)
    BY <1>1, <1>5, <1>8, <1>9, <2>4, <2>10, <2>11, <2>12, SyncsKept
  <2>14. Owned(s) => Owned(w)
    BY <1>5, <1>9, <1>10, <1>11, <2>9, <2>13 DEF Owned
  <2>15. Released(s, w, m)
    BY <1>10, <1>11, <2>4, <2>5, <2>9 DEF Released
  <2> QED BY <1>12, <2>1, <2>6, <2>7, <2>8, <2>13, <2>14, <2>15 DEF Core, Rest
<1>14. CASE ~(w.mem[m].exported /\ w.mem[m].ref # 0)
  <2>1. t = FreeDeviceMem(v, m)
    BY <1>7, <1>14
  <2>2. MapsOf(s, m) = {}
    <3>1. CASE s.mem[m].exported
      <4>1. Cardinality(MapsOf(s, m)) = 0
        BY <1>4, <1>10, <1>11, <1>14, <3>1
      <4> QED BY <1>4, <4>1, FS_EmptySet
    <3>2. CASE ~s.mem[m].exported
      <4>1. ASSUME NEW d \in MapsOf(s, m) PROVE FALSE
        <5>1. d \in Mems /\ Shape(s, d) /\ s.mem[d].kind = "map" /\ s.mem[d].src = m
          BY <1>1, <4>1 DEF MapsOf, Rest, Shapes
        <5> QED BY <3>2, <5>1 DEF Shape
      <4> QED BY <4>1
    <3> QED BY <3>1, <3>2
  <2>3. /\ Balanced(u) /\ u \in States /\ u.proc = s.proc /\ u.mem = w.mem /\ u.sync = s.sync
        /\ u.syncTable = s.syncTable /\ u.exports \subseteq s.exports /\ m \notin u.exports
    <3>1. CASE w.mem[m].exported
      <4>1. u = WithExports(w, s.exports \ {m})
        BY <1>8, <1>9, <3>1 DEF States, WithExports
      <4>2. /\ u.proc = w.proc /\ u.mem = w.mem /\ u.sync = w.sync /\ u.kref = w.kref
            /\ u.syncTable = w.syncTable /\ u.exports = s.exports \ {m}
        BY <4>1 DEF WithExports
      <4>3. u \in States
        BY <1>1, <1>8, <4>1 DEF States, WithExports
      <4> HIDE DEF u
      <4>4. Balanced(u)
        BY <1>12, <4>2, <4>3, BalancedAlike DEF Live
      <4> QED BY <1>9, <4>2, <4>3, <4>4
    <3>2. CASE ~w.mem[m].exported
      <4>1. u = w
        BY <3>2
      <4>2. m \notin s.exports
        BY <1>1, <1>10, <1>11, <3>2 DEF Rest, ExportsLive
      <4> QED BY <1>8, <1>9, <1>12, <4>1, <4>2
    <3> QED BY <3>1, <3>2
  <2> HIDE DEF u
  <2>4. s.mem[m].sync = m => s.sync[m].live
    BY <1>1 DEF Rest, SyncsLive
  <2>5. /\ Balanced(v) /\ v.proc = s.proc /\ v.mem = w.mem
        /\ v.syncTable = s.syncTable /\ v.exports = u.exports
        /\ \A y \in (Mems \cup {Disp}) \ {m} : v.sync[y] = s.sync[y]
        /\ Owned(s) => ~v.sync[m].live
    <3>1. CASE s.mem[m].sync = NoSync
      <4>1. v = u
        BY <1>10, <1>11, <3>1
      <4>2. m # NoSync
        BY DEF NoSync
      <4>3. Owned(s) => ~s.sync[m].live
        BY <1>5, <3>1, <4>2 DEF Owned
      <4> QED BY <2>3, <4>1, <4>3
    <3>2. CASE s.mem[m].sync = m
      <4>1. m # NoSync
        BY DEF NoSync
      <4>2. v = PVRSRVFreeSyncInfoKM(u, m)
        BY <1>10, <1>11, <3>2, <4>1
      <4>3. /\ Balanced(v) /\ v.proc = u.proc /\ v.mem = u.mem
            /\ v.sync = [u.sync EXCEPT ![m] = NoSyncInfo]
            /\ v.syncTable = u.syncTable /\ v.exports = u.exports
        BY <2>3, <2>4, <3>2, <4>2, FreeSyncBalanced
      <4>4. ~v.sync[m].live /\ \A y \in (Mems \cup {Disp}) \ {m} : v.sync[y] = s.sync[y]
        <5>1. NoSyncInfo.live = FALSE
          BY DEF NoSyncInfo
        <5> QED BY <1>1, <2>3, <4>3, <5>1
      <4> QED BY <2>3, <4>3, <4>4
    <3> QED BY <1>3, <3>1, <3>2
  <2> HIDE DEF v
  <2>6. /\ Live(v, m) /\ v.mem[m].ctx = s.mem[m].ctx
        /\ v.mem[m].kind = s.mem[m].kind /\ v.mem[m].p = s.mem[m].p
        /\ v.mem[m].h = s.mem[m].h /\ v.mem[m].refh = s.mem[m].refh
        /\ \A d \in Mems \ {m} : v.mem[d] = s.mem[d]
    BY <1>10, <1>11, <2>5 DEF Live
  <2> QED BY <1>3, <2>1, <2>2, <2>3, <2>5, <2>6, FreeFrom
<1> QED BY <1>13, <1>14

WithMemRef(r, n) ==
  [st |-> r.st, kind |-> r.kind, p |-> r.p, ctx |-> r.ctx, item |-> r.item, ref |-> n,
   exported |-> r.exported, sync |-> r.sync, src |-> r.src, addr |-> r.addr,
   h |-> r.h, refh |-> r.refh]

(* The update of a memory info's count, as a record.                       *)
LEMMA MemRefForm ==
  ASSUME NEW s \in States, NEW m \in Mems, NEW n \in Nat
  PROVE  /\ [s EXCEPT !.mem[m].ref = n] = WithMem(s, [s.mem EXCEPT ![m] = WithMemRef(s.mem[m], n)])
         /\ WithMemRef(s.mem[m], n) \in MemType
<1>1. PICK f, a, b, d, e, g : s = [proc |-> f, mem |-> a, sync |-> b, syncTable |-> d,
                                   exports |-> e, kref |-> g]
  BY DEF States
<1>2. m \in DOMAIN a /\ a[m] \in MemType /\ a[m] = s.mem[m]
  BY <1>1 DEF States
<1>3. PICK st, kind, p, ctx, item, ref, ex, sy, src, ad, h, rh :
        a[m] = [st |-> st, kind |-> kind, p |-> p, ctx |-> ctx, item |-> item, ref |-> ref,
                exported |-> ex, sync |-> sy, src |-> src, addr |-> ad, h |-> h, refh |-> rh]
  BY <1>2 DEF MemType
<1>4. [s EXCEPT !.mem[m].ref = n] =
        [proc |-> f, mem |-> [a EXCEPT ![m].ref = n], sync |-> b,
         syncTable |-> d, exports |-> e, kref |-> g]
  BY <1>1
<1>5. WithMemRef(a[m], n) =
               [st |-> st, kind |-> kind, p |-> p, ctx |-> ctx, item |-> item, ref |-> n,
                exported |-> ex, sync |-> sy, src |-> src, addr |-> ad, h |-> h, refh |-> rh]
  BY <1>3 DEF WithMemRef
<1>6. [a[m] EXCEPT !.ref = n] =
               [st |-> st, kind |-> kind, p |-> p, ctx |-> ctx, item |-> item, ref |-> n,
                exported |-> ex, sync |-> sy, src |-> src, addr |-> ad, h |-> h, refh |-> rh]
  BY <1>3
<1>7. [a EXCEPT ![m].ref = n] = [a EXCEPT ![m] = WithMemRef(a[m], n)]
  BY <1>5, <1>6
<1>8. WithMemRef(s.mem[m], n) \in MemType
  BY <1>2 DEF WithMemRef, MemType
<1> QED BY <1>1, <1>2, <1>4, <1>7, <1>8 DEF WithMem

(* Unmapping keeps the core: the source, if it is still there, has one     *)
(* reference and one mapping less.                                         *)
LEMMA FreesMap ==
  ASSUME NEW s, NEW ch \in Procs \cup {Nobody}, Core(s, ch), NEW m \in Mems, Live(s, m),
         s.proc[s.mem[m].p].st = "up", s.mem[m].kind = "map",
         NEW t, t = UnmapDeviceMemoryCallBack(s, m)
  PROVE  Core(t, ch) /\ Released(s, t, m) /\ (Owned(s) => Owned(t))
<1>1. /\ Balanced(s) /\ Rest(s, ch) /\ s \in States /\ s.mem \in [Mems -> MemType]
      /\ s.proc \in [Procs -> ProcType]
  BY CoreFields
<1>2. PICK x \in Mems \ {m} : s.mem[m].src = x
  BY <1>1 DEF Rest, Shapes, Shape
<1>3. s.mem[m].ctx \in Contexts /\ (s.mem[m].ctx # Kernel => s.proc[s.mem[m].ctx].st = "up")
  <2>1. s.mem[m].ctx \in {s.mem[m].p, Kernel} /\ s.mem[m].p \in Procs
    BY <1>1 DEF Rest, Shapes, Shape
  <2> QED BY <2>1 DEF Contexts
<1> DEFINE u == FreeDeviceMem(s, m)
<1>4. /\ Balanced(u) /\ Framed(s, u)
      /\ u.mem = [s.mem EXCEPT ![m] = Freed(s.mem[m])] /\ u.sync = s.sync
      /\ u.syncTable = s.syncTable /\ u.exports = s.exports
  BY <1>1, <1>3, FreeBalanced
<1>5. u \in States /\ \A d \in Mems \ {m} : u.mem[d] = s.mem[d]
  BY <1>1, <1>4 DEF Balanced
<1>6. /\ u.mem[m].st = "freed" /\ u.mem[m].kind = s.mem[m].kind /\ u.mem[m].p = s.mem[m].p
      /\ u.mem[m].h = s.mem[m].h /\ u.mem[m].refh = s.mem[m].refh
  <2>1. u.mem[m] = Freed(s.mem[m])
    BY <1>1, <1>4
  <2> QED BY <1>1, <2>1, FreedFacts
<1>7. t = IF Live(s, x) THEN [u EXCEPT !.mem[x].ref = @ - 1] ELSE u
  BY <1>2 DEF UnmapDeviceMemoryCallBack
<1> HIDE DEF u
<1>8. /\ Balanced(t) /\ t.proc = u.proc /\ t.sync = s.sync /\ t.mem[m] = u.mem[m]
      /\ t.syncTable = s.syncTable /\ t.exports = s.exports
      /\ \A d \in Mems \ {m} : /\ Same(t.mem[d], s.mem[d])
                               /\ t.mem[d].h = s.mem[d].h /\ t.mem[d].refh = s.mem[d].refh
      /\ \A d \in Mems \ {m, x} : t.mem[d] = s.mem[d]
      /\ Live(s, x) => t.mem[x].ref = s.mem[x].ref - 1
  <2>1. CASE Live(s, x)
    <3>1. /\ m \in MapsOf(s, x) /\ IsFiniteSet(MapsOf(s, x))
          /\ Cardinality(MapsOf(s, x)) \in Nat /\ Cardinality(MapsOf(s, x)) # 0
      <4>1. m \in MapsOf(s, x)
        BY <1>2 DEF MapsOf
      <4>2. IsFiniteSet(MapsOf(s, x)) /\ Cardinality(MapsOf(s, x)) \in Nat
        BY MapsFinite
      <4> QED BY <4>1, <4>2, FS_EmptySet
    <3>2. Extra(s, x) \in {0, 1} /\ s.mem[x].ref \in Nat
      BY <1>1, <2>1 DEF Rest, Refs, RefExact, MemType, Kinds
    <3>3. s.mem[x].ref - 1 \in Nat
      BY <3>1, <3>2 DEF Extra
    <3>4. PICK n \in Nat : n = s.mem[x].ref - 1
      BY <3>3
    <3>5. t = [u EXCEPT !.mem[x].ref = n]
      BY <1>5, <1>7, <2>1, <3>4
    <3>6. t = WithMem(u, [u.mem EXCEPT ![x] = WithMemRef(u.mem[x], n)]) /\ WithMemRef(u.mem[x], n) \in MemType
      BY <1>5, <3>5, MemRefForm
    <3>7. u.mem \in [Mems -> MemType]
      BY <1>5 DEF States
    <3>8. t \in States
      BY <1>5, <3>6, <3>7, WithTypes
    <3>9. /\ t.proc = u.proc /\ t.sync = u.sync /\ t.syncTable = u.syncTable
          /\ t.exports = u.exports /\ t.kref = u.kref
          /\ t.mem = [u.mem EXCEPT ![x] = WithMemRef(u.mem[x], n)]
      BY <3>6 DEF WithMem
    <3>10. t.mem[x] = WithMemRef(s.mem[x], n) /\ \A d \in Mems \ {x} : t.mem[d] = u.mem[d]
      BY <1>5, <3>7, <3>9
    <3>11. Same(t.mem[x], s.mem[x]) /\ t.mem[x].ref = n /\ t.mem[x].h = s.mem[x].h /\ t.mem[x].refh = s.mem[x].refh
      BY <3>10 DEF Same, WithMemRef
    <3>12. \A d \in Mems : /\ Live(t, d) <=> Live(u, d)
                           /\ t.mem[d].ctx = u.mem[d].ctx /\ t.mem[d].addr = u.mem[d].addr
      BY <1>5, <3>10, <3>11 DEF Live, Same
    <3>13. Balanced(t)
      <4>1. t.proc = u.proc /\ t.kref = u.kref /\ \A y \in Mems \cup {Disp} : t.sync[y].live = u.sync[y].live
        BY <3>9
      <4>2. Balanced(u) /\ t \in States
        BY <1>4, <3>8
      <4> QED BY <3>12, <4>1, <4>2, BalancedAlike
    <3>14. \A d \in Mems \ {m, x} : t.mem[d] = s.mem[d]
      BY <1>5, <3>10
    <3>15. \A d \in Mems \ {m} : /\ Same(t.mem[d], s.mem[d])
                                 /\ t.mem[d].h = s.mem[d].h /\ t.mem[d].refh = s.mem[d].refh
      BY <3>11, <3>14 DEF Same
    <3> QED BY <1>4, <2>1, <3>4, <3>9, <3>10, <3>11, <3>13, <3>14, <3>15
  <2>2. CASE ~Live(s, x)
    <3>1. t = u
      BY <1>7, <2>2
    <3> QED BY <1>4, <1>5, <2>2, <3>1 DEF Same
  <2> QED BY <2>1, <2>2
<1>9. t \in States
  BY <1>8 DEF Balanced
<1>10. ~Live(t, m)
  BY <1>6, <1>8 DEF Live
<1>11. ASSUME NEW d \in Mems \ {m}, Live(s, d) PROVE Extra(t, d) = Extra(s, d)
  <2>1. CASE d = x
    <3>1. MapsOf(t, x) = MapsOf(s, x) \ {m} /\ m \in MapsOf(s, x)
      <4>1. m \in MapsOf(s, x)
        BY <1>2 DEF MapsOf
      <4>2. ASSUME NEW n \in Mems \ {m} PROVE n \in MapsOf(t, x) <=> n \in MapsOf(s, x)
        <5>1. Same(t.mem[n], s.mem[n])
          BY <1>8
        <5> QED BY <5>1 DEF MapsOf, Same, Live
      <4>3. m \notin MapsOf(t, x)
        BY <1>10 DEF MapsOf
      <4> QED BY <4>1, <4>2, <4>3 DEF MapsOf
    <3>2. IsFiniteSet(MapsOf(s, x)) /\ Cardinality(MapsOf(s, x)) \in Nat
      BY MapsFinite
    <3>3. Cardinality(MapsOf(t, x)) = Cardinality(MapsOf(s, x)) - 1
      <4>1. Cardinality(MapsOf(s, x) \ {m}) = Cardinality(MapsOf(s, x)) - 1
        <5>1. m \in MapsOf(s, x)
          BY <3>1
        <5> QED BY <3>2, <5>1, FS_RemoveElement
      <4> QED BY <3>1, <4>1
    <3>4. s.mem[x].ref \in Nat
      BY <1>1 DEF MemType
    <3> QED BY <1>8, <1>11, <2>1, <3>2, <3>3, <3>4 DEF Extra
  <2>2. CASE d # x
    <3>1. MapsOf(t, d) = MapsOf(s, d)
      <4>1. \A n \in Mems \ {m} : Same(t.mem[n], s.mem[n])
        BY <1>8
      <4>2. ~(Live(s, m) /\ s.mem[m].kind = "map" /\ s.mem[m].src = d)
        BY <1>2, <2>2
      <4>3. ~(Live(t, m) /\ t.mem[m].kind = "map" /\ t.mem[m].src = d)
        BY <1>10
      <4>4. PICK z : z = t
        OBVIOUS
      <4>5. /\ \A n \in Mems \ {m} : Same(z.mem[n], s.mem[n])
            /\ ~(Live(z, m) /\ z.mem[m].kind = "map" /\ z.mem[m].src = d)
        BY <4>1, <4>3, <4>4
      <4>6. MapsOf(z, d) = MapsOf(s, d)
        BY <4>2, <4>5, MapsKept
      <4> QED BY <4>4, <4>6
    <3> QED BY <1>8, <2>2, <3>1 DEF Extra
  <2> QED BY <2>1, <2>2
<1>12. Others(s, t, m) /\ Framed(s, t)
  BY <1>4, <1>8, <1>11 DEF Others, Framed
<1>13. /\ t.mem[m].st = "freed" /\ t.mem[m].kind = s.mem[m].kind /\ t.mem[m].p = s.mem[m].p
       /\ t.mem[m].h = s.mem[m].h /\ t.mem[m].refh = s.mem[m].refh
  BY <1>6, <1>8
<1>14. Shapes(t) /\ Refs(t) /\ ExportsLive(t)
  BY <1>1, <1>8, <1>9, <1>12, <1>13, FreedRest
<1>15. \A a \in Addrs : s.syncTable[a] # m
  BY <1>1, NotInTable DEF Rest
<1>16. /\ NotWrap(s, m) /\ NotWrap(t, m) /\ t.mem[m].st # "unused"
       /\ \A p \in Procs : t.proc[p].st = s.proc[p].st
  BY <1>10, <1>12, <1>13 DEF NotWrap, Framed
<1>17. /\ TableExact(t) /\ WrapsShare(t) /\ SyncsLive(t) /\ ChainSync(t, ch)
       /\ Owned(s) /\ (t.sync[m].live => /\ Live(t, m) /\ t.mem[m].kind = "alloc"
                                         /\ t.mem[m].sync = m) => Owned(t)
  <2>1. t.syncTable = s.syncTable /\ t.sync = s.sync
    BY <1>8
  <2> QED BY <1>1, <1>9, <1>10, <1>12, <1>15, <1>16, <2>1, SyncsKept
<1>18. Owned(s) => Owned(t)
  BY <1>8, <1>15, <1>17 DEF Owned
<1>19. Released(s, t, m)
  BY <1>12, <1>13 DEF Released
<1> QED BY <1>8, <1>14, <1>17, <1>18, <1>19 DEF Core, Rest

WithTable(s, f) ==
  [proc |-> s.proc, mem |-> s.mem, sync |-> s.sync,
   syncTable |-> f, exports |-> s.exports, kref |-> s.kref]

(* The update of an entry of the table, as a record.                       *)
LEMMA TableForm ==
  ASSUME NEW s \in States, NEW a \in Addrs, NEW y \in Mems \cup {NoSync}
  PROVE  /\ [s EXCEPT !.syncTable[a] = y] = WithTable(s, [s.syncTable EXCEPT ![a] = y])
         /\ WithTable(s, [s.syncTable EXCEPT ![a] = y]) \in States
BY DEF States, WithTable

Entered(s, a, y) == [s EXCEPT !.syncTable[a] = y]

(* No count of a context depends on the table.                             *)
LEMMA TableBalanced ==
  ASSUME NEW s, Balanced(s), NEW a \in Addrs, NEW y \in Mems \cup {NoSync},
         NEW t, t = Entered(s, a, y)
  PROVE  /\ Balanced(t) /\ t.proc = s.proc /\ t.mem = s.mem /\ t.sync = s.sync
         /\ t.syncTable = [s.syncTable EXCEPT ![a] = y] /\ t.exports = s.exports
<1>1. s \in States
  BY DEF Balanced
<1>2. t = WithTable(s, [s.syncTable EXCEPT ![a] = y]) /\ t \in States
  BY <1>1, TableForm DEF Entered
<1>3. /\ t.proc = s.proc /\ t.mem = s.mem /\ t.sync = s.sync /\ t.kref = s.kref
      /\ t.syncTable = [s.syncTable EXCEPT ![a] = y] /\ t.exports = s.exports
  BY <1>2 DEF WithTable
<1>4. \A d \in Mems : Live(t, d) <=> Live(s, d)
  BY <1>3 DEF Live
<1>5. Balanced(t)
  BY <1>2, <1>3, <1>4, BalancedAlike
<1> QED BY <1>3, <1>5

WithSyncRef(r, n) == [live |-> r.live, ref |-> n, addr |-> r.addr]

(* The update of a synchronisation info's count, as a record.              *)
LEMMA SyncRefForm ==
  ASSUME NEW s \in States, NEW y \in Mems \cup {Disp}, NEW n \in Nat
  PROVE  /\ [s EXCEPT !.sync[y].ref = n] = WithSync(s, [s.sync EXCEPT ![y] = WithSyncRef(s.sync[y], n)])
         /\ WithSyncRef(s.sync[y], n) \in SyncType
<1>2. PICK f, a, b, d, e, g : s = [proc |-> f, mem |-> a, sync |-> b, syncTable |-> d,
                                   exports |-> e, kref |-> g]
  BY DEF States
<1>3. b \in [Mems \cup {Disp} -> SyncType]
  BY <1>2 DEF States
<1>4. [b[y] EXCEPT !.ref = n] = WithSyncRef(b[y], n) /\ WithSyncRef(b[y], n) \in SyncType
  BY <1>3 DEF WithSyncRef, SyncType
<1>5. [s EXCEPT !.sync[y].ref = n] = [proc |-> f, mem |-> a, sync |-> [b EXCEPT ![y].ref = n], syncTable |-> d,
           exports |-> e, kref |-> g]
  BY <1>2
<1>6. [b EXCEPT ![y].ref = n] = [b EXCEPT ![y] = WithSyncRef(b[y], n)]
  BY <1>4
<1> QED BY <1>2, <1>4, <1>5, <1>6 DEF WithSync

(* No count of a context depends on it.                                    *)
LEMMA SyncRefBalanced ==
  ASSUME NEW s, Balanced(s), NEW y \in Mems \cup {Disp}, NEW n \in Nat,
         NEW t, t = WithSync(s, [s.sync EXCEPT ![y] = WithSyncRef(s.sync[y], n)])
  PROVE  /\ Balanced(t) /\ t.proc = s.proc /\ t.mem = s.mem
         /\ t.sync = [s.sync EXCEPT ![y] = WithSyncRef(s.sync[y], n)]
         /\ t.syncTable = s.syncTable /\ t.exports = s.exports
<1>1. s \in States /\ s.sync \in [Mems \cup {Disp} -> SyncType]
  BY DEF Balanced, States
<1>8. /\ t.proc = s.proc /\ t.mem = s.mem /\ t.kref = s.kref
      /\ t.sync = [s.sync EXCEPT ![y] = WithSyncRef(s.sync[y], n)]
      /\ t.syncTable = s.syncTable /\ t.exports = s.exports
  BY DEF WithSync
<1>9. t \in States
  <2>0. WithSyncRef(s.sync[y], n) \in SyncType
    BY <1>1, SyncRefForm
  <2>1. [s.sync EXCEPT ![y] = WithSyncRef(s.sync[y], n)] \in [Mems \cup {Disp} -> SyncType]
    BY <1>1, <2>0
  <2>2. PICK k \in [Mems \cup {Disp} -> SyncType] : k = [s.sync EXCEPT ![y] = WithSyncRef(s.sync[y], n)]
    BY <2>1
  <2>3. t = WithSync(s, k)
    BY <2>2
  <2> QED BY <1>1, <2>3, WithTypes
<1>10. \A z \in Mems \cup {Disp} : t.sync[z].live = s.sync[z].live
  <2>1. WithSyncRef(s.sync[y], n).live = s.sync[y].live
    BY DEF WithSyncRef
  <2> QED BY <1>1, <1>8, <2>1
<1>11. \A d \in Mems : Live(t, d) <=> Live(s, d)
  BY <1>8 DEF Live
<1>12. Balanced(t)
  BY <1>8, <1>9, <1>10, <1>11, BalancedAlike
<1> QED BY <1>8, <1>12

(* Unwrapping keeps the core: the last wrap of an address takes the        *)
(* synchronisation info and its entry in the table with it, an earlier one *)
(* only its own reference.                                                 *)
LEMMA FreesWrap ==
  ASSUME NEW s, NEW ch \in Procs \cup {Nobody}, Core(s, ch), NEW m \in Mems, Live(s, m),
         s.proc[s.mem[m].p].st = "up", s.mem[m].kind = "wrap",
         NEW t, t = UnwrapExtMemoryCallBack(s, m)
  PROVE  Core(t, ch) /\ Released(s, t, m) /\ (Owned(s) => Owned(t))
<1>1. /\ Balanced(s) /\ Rest(s, ch) /\ s \in States /\ s.mem \in [Mems -> MemType]
      /\ s.proc \in [Procs -> ProcType] /\ s.sync \in [Mems \cup {Disp} -> SyncType]
      /\ s.syncTable \in [Addrs -> Mems \cup {NoSync}]
  BY CoreFields
<1>2. PICK y \in Mems : s.mem[m].sync = y
  BY <1>1 DEF Rest, Shapes, Shape
<1>3. PICK a \in Addrs : s.syncTable[a] = y
  BY <1>1, <1>2 DEF Rest, WrapsShare
<1>4. y # NoSync /\ y # Disp
  BY DEF NoSync, Disp
<1>5. /\ s.sync[y].live /\ s.sync[y].addr = a
      /\ s.sync[y].ref = Cardinality(Users(s, y)) /\ s.sync[y].ref > 0
      /\ s.mem[y].kind = "wrap" /\ s.mem[y].st # "unused"
  BY <1>1, <1>3, <1>4 DEF Rest, TableExact
<1>6. \A b \in Addrs : s.syncTable[b] = y => b = a
  BY <1>1, <1>4, <1>5 DEF Rest, TableExact
<1>7. IsFiniteSet(Users(s, y)) /\ m \in Users(s, y) /\ Cardinality(Users(s, y)) \in Nat
  <2>1. IsFiniteSet(Users(s, y))
    BY FS_Subset DEF Users
  <2> QED BY <1>2, <2>1, FS_CardinalityType DEF Users
<1> DEFINE u == put_syncinfo(s, y)
           one == s.sync[y].ref = 1
<1>8. /\ Balanced(u) /\ u.proc = s.proc /\ u.mem = s.mem /\ u.exports = s.exports
      /\ u.syncTable = IF one THEN [s.syncTable EXCEPT ![a] = NoSync] ELSE s.syncTable
      /\ u.sync = [s.sync EXCEPT ![y] = IF one THEN NoSyncInfo
                                        ELSE WithSyncRef(s.sync[y], s.sync[y].ref - 1)]
  <2>1. CASE one
    <3>1. PICK v : v = [s EXCEPT !.syncTable[a] = NoSync]
      OBVIOUS
    <3>2. u = PVRSRVFreeSyncInfoKM(v, y)
      BY <1>5, <2>1, <3>1 DEF put_syncinfo
    <3>3. /\ Balanced(v) /\ v.proc = s.proc /\ v.mem = s.mem /\ v.sync = s.sync
          /\ v.syncTable = [s.syncTable EXCEPT ![a] = NoSync] /\ v.exports = s.exports
      <4>1. PICK k \in Mems \cup {NoSync} : k = NoSync
        OBVIOUS
      <4>2. v = Entered(s, a, k)
        BY <3>1, <4>1 DEF Entered
      <4>3. /\ Balanced(v) /\ v.proc = s.proc /\ v.mem = s.mem /\ v.sync = s.sync
            /\ v.syncTable = [s.syncTable EXCEPT ![a] = k] /\ v.exports = s.exports
        BY <1>1, <4>2, TableBalanced
      <4> QED BY <4>1, <4>3
    <3>4. v.sync[y].live
      BY <1>5, <3>3
    <3>5. /\ Balanced(u) /\ u.proc = v.proc /\ u.mem = v.mem
          /\ u.sync = [v.sync EXCEPT ![y] = NoSyncInfo]
          /\ u.syncTable = v.syncTable /\ u.exports = v.exports
      <4> HIDE DEF u
      <4> QED BY <3>2, <3>3, <3>4, FreeSyncBalanced
    <3> HIDE DEF u
    <3> QED BY <2>1, <3>3, <3>5
  <2>2. CASE ~one
    <3>1. PICK n \in Nat : n = s.sync[y].ref - 1
      BY <1>1, <1>5 DEF SyncType
    <3>2. u = [s EXCEPT !.sync[y].ref = n]
      BY <2>2, <3>1 DEF put_syncinfo
    <3> HIDE DEF u
    <3>3. /\ Balanced(u) /\ u.proc = s.proc /\ u.mem = s.mem
          /\ u.sync = [s.sync EXCEPT ![y] = WithSyncRef(s.sync[y], n)]
          /\ u.syncTable = s.syncTable /\ u.exports = s.exports
      <4>1. PICK z \in Mems \cup {Disp} : z = y
        OBVIOUS
      <4>2. u = WithSync(s, [s.sync EXCEPT ![z] = WithSyncRef(s.sync[z], n)])
        <5>1. s \in States
          BY <1>1
        <5>2. [s EXCEPT !.sync[z].ref = n] = WithSync(s, [s.sync EXCEPT ![z] = WithSyncRef(s.sync[z], n)])
          BY <5>1, SyncRefForm
        <5>3. u = [s EXCEPT !.sync[z].ref = n]
          BY <3>2, <4>1
        <5> QED BY <5>2, <5>3
      <4>3. /\ Balanced(u) /\ u.proc = s.proc /\ u.mem = s.mem
            /\ u.sync = [s.sync EXCEPT ![z] = WithSyncRef(s.sync[z], n)]
            /\ u.syncTable = s.syncTable /\ u.exports = s.exports
        <5>1. Balanced(s)
          BY <1>1
        <5> QED BY <4>2, <5>1, SyncRefBalanced
      <4> QED BY <4>1, <4>3
    <3> QED BY <2>2, <3>1, <3>3
  <2> QED BY <2>1, <2>2
<1>9. t = FreeDeviceMem(u, m)
  BY <1>2 DEF UnwrapExtMemoryCallBack
<1> HIDE DEF u
<1>10. s.mem[m].ctx = s.mem[m].p /\ s.mem[m].p \in Procs
  BY <1>1 DEF Rest, Shapes, Shape
<1>11. /\ Balanced(t) /\ Framed(s, t)
       /\ t.mem = [s.mem EXCEPT ![m] = Freed(s.mem[m])] /\ t.sync = u.sync
       /\ t.syncTable = u.syncTable /\ t.exports = s.exports
  <2>1. Live(u, m) /\ u.mem[m].ctx \in Contexts /\ u.proc[u.mem[m].ctx].st = "up"
    BY <1>8, <1>10 DEF Live, Contexts
  <2>2. /\ Balanced(t) /\ Framed(u, t)
        /\ t.mem = [u.mem EXCEPT ![m] = Freed(u.mem[m])] /\ t.sync = u.sync
        /\ t.syncTable = u.syncTable /\ t.exports = u.exports
    BY <1>8, <1>9, <2>1, FreeBalanced
  <2> QED BY <1>8, <2>2 DEF Framed
<1>12. t \in States /\ \A d \in Mems \ {m} : t.mem[d] = s.mem[d]
  BY <1>1, <1>11 DEF Balanced
<1>13. /\ t.mem[m].st = "freed" /\ t.mem[m].kind = s.mem[m].kind /\ t.mem[m].p = s.mem[m].p
       /\ t.mem[m].h = s.mem[m].h /\ t.mem[m].refh = s.mem[m].refh
  <2>1. t.mem[m] = Freed(s.mem[m])
    BY <1>1, <1>11
  <2>2. s.mem[m] \in MemType
    BY <1>1
  <2> QED BY <2>1, <2>2, FreedFacts
<1>14. ~Live(t, m) /\ \A d \in Mems \ {m} : Same(t.mem[d], s.mem[d]) /\ (Live(t, d) <=> Live(s, d))
  BY <1>12, <1>13 DEF Same, Live
<1>15. \A d \in Mems \ {m} : Extra(t, d) = Extra(s, d)
  <2> TAKE d \in Mems \ {m}
  <2>1. MapsOf(t, d) = MapsOf(s, d)
    BY <1>14, MapsKept
  <2> QED BY <1>12, <2>1 DEF Extra
<1>16. Others(s, t, m)
  BY <1>12, <1>14, <1>15 DEF Others
<1>17. Shapes(t) /\ Refs(t) /\ ExportsLive(t)
  BY <1>1, <1>11, <1>12, <1>13, <1>16, FreedRest
<1>18. \A d \in Mems : t.mem[d].kind = s.mem[d].kind /\ (t.mem[d].st = "unused" <=> s.mem[d].st = "unused")
  <2>1. s.mem[m].st # "unused"
    BY DEF Live
  <2> QED BY <1>12, <1>13, <2>1
<1>19. /\ \A z \in (Mems \cup {Disp}) \ {y} : t.sync[z] = s.sync[z]
       /\ t.sync[y] = IF one THEN NoSyncInfo ELSE WithSyncRef(s.sync[y], s.sync[y].ref - 1)
       /\ \A b \in Addrs \ {a} : t.syncTable[b] = s.syncTable[b]
       /\ t.syncTable[a] = IF one THEN NoSync ELSE y
  BY <1>1, <1>3, <1>8, <1>11
<1>20. one => Users(s, y) = {m}
  <2>1. ASSUME one, NEW d \in Users(s, y), d # m PROVE FALSE
    <3>1. Cardinality(Users(s, y) \ {m}) = 0 /\ IsFiniteSet(Users(s, y) \ {m})
      <4>1. Cardinality(Users(s, y) \ {m}) = Cardinality(Users(s, y)) - 1
        BY <1>7, FS_RemoveElement
      <4>2. IsFiniteSet(Users(s, y) \ {m})
        BY <1>7, FS_Subset
      <4> QED BY <1>5, <2>1, <4>1, <4>2
    <3>2. Users(s, y) \ {m} = {}
      BY <3>1, FS_EmptySet
    <3> QED BY <2>1, <3>2
  <2> QED BY <1>7, <2>1
<1>21. \A z : z # y => Users(t, z) = Users(s, z)
  BY <1>2, <1>12, <1>14 DEF Users
<1>22. Users(t, y) = Users(s, y) \ {m}
  BY <1>12, <1>14 DEF Users
<1>23. TableExact(t)
  <2> SUFFICES ASSUME NEW b \in Addrs, t.syncTable[b] # NoSync
               PROVE  LET z == t.syncTable[b] IN
                      /\ t.sync[z].live /\ t.sync[z].addr = b
                      /\ t.sync[z].ref = Cardinality(Users(t, z)) /\ t.sync[z].ref > 0
                      /\ t.mem[z].kind = "wrap" /\ t.mem[z].st # "unused"
    BY DEF TableExact
  <2>1. CASE b # a
    <3>1. PICK z \in Mems : z = s.syncTable[b] /\ z = t.syncTable[b]
      BY <1>1, <1>19, <2>1
    <3>2. z # y
      BY <1>6, <2>1, <3>1
    <3>3. /\ s.sync[z].live /\ s.sync[z].addr = b
          /\ s.sync[z].ref = Cardinality(Users(s, z)) /\ s.sync[z].ref > 0
          /\ s.mem[z].kind = "wrap" /\ s.mem[z].st # "unused"
      <4>1. z # NoSync
        BY DEF NoSync
      <4>2. s.syncTable[b] # NoSync /\ TableExact(s)
        BY <1>1, <3>1, <4>1 DEF Rest
      <4>3. LET x == s.syncTable[b] IN
            /\ s.sync[x].live /\ s.sync[x].addr = b
            /\ s.sync[x].ref = Cardinality(Users(s, x)) /\ s.sync[x].ref > 0
            /\ s.mem[x].kind = "wrap" /\ s.mem[x].st # "unused"
        BY <4>2, Zenon DEF TableExact
      <4> QED BY <3>1, <4>3
    <3>4. t.sync[z] = s.sync[z] /\ Users(t, z) = Users(s, z)
      BY <1>19, <1>21, <3>2
    <3> QED BY <1>18, <3>1, <3>3, <3>4
  <2>2. CASE b = a
    <3>1. ~one /\ t.syncTable[b] = y /\ t.sync[y] = WithSyncRef(s.sync[y], s.sync[y].ref - 1)
      BY <1>19, <2>2
    <3>2. t.sync[y].live = s.sync[y].live /\ t.sync[y].addr = a /\ t.sync[y].ref = s.sync[y].ref - 1
      BY <1>5, <3>1 DEF WithSyncRef
    <3>3. Cardinality(Users(t, y)) = Cardinality(Users(s, y)) - 1
      <4>1. Cardinality(Users(s, y) \ {m}) = Cardinality(Users(s, y)) - 1
        BY <1>7, FS_RemoveElement
      <4> QED BY <1>22, <4>1
    <3>4. t.sync[y].ref = Cardinality(Users(t, y)) /\ t.sync[y].ref > 0
      BY <1>5, <1>7, <3>1, <3>2, <3>3
    <3>5. t.sync[y].live /\ t.mem[y].kind = "wrap" /\ t.mem[y].st # "unused"
      BY <1>5, <1>18, <3>2
    <3> QED BY <2>2, <3>1, <3>2, <3>4, <3>5
  <2> QED BY <2>1, <2>2
<1>24. WrapsShare(t)
  <2> SUFFICES ASSUME NEW d \in Mems, Live(t, d), t.mem[d].kind = "wrap"
               PROVE  \E b \in Addrs : t.syncTable[b] = t.mem[d].sync
    BY DEF WrapsShare
  <2>1. d # m /\ t.mem[d] = s.mem[d] /\ Live(s, d)
    BY <1>12, <1>14
  <2>2. PICK b \in Addrs : s.syncTable[b] = s.mem[d].sync
    BY <1>1, <2>1 DEF Rest, WrapsShare
  <2>3. CASE b # a
    BY <1>19, <2>1, <2>2, <2>3
  <2>4. CASE b = a
    <3>1. d \in Users(s, y)
      BY <1>3, <2>1, <2>2, <2>4 DEF Users
    <3>2. ~one
      BY <1>20, <2>1, <3>1
    <3> QED BY <1>3, <1>19, <2>1, <2>2, <2>4, <3>2
  <2> QED BY <2>3, <2>4
<1>25. SyncsLive(t)
  <2> SUFFICES ASSUME NEW d \in Mems
               PROVE  /\ Live(t, d) /\ t.mem[d].kind = "alloc" /\ t.mem[d].sync = d => t.sync[d].live
                      /\ t.mem[d].st = "unused" => ~t.sync[d].live
    BY DEF SyncsLive
  <2>1. d # y => t.sync[d] = s.sync[d]
    BY <1>19
  <2>2. /\ Live(s, d) /\ s.mem[d].kind = "alloc" /\ s.mem[d].sync = d => s.sync[d].live
        /\ s.mem[d].st = "unused" => ~s.sync[d].live
    BY <1>1 DEF Rest, SyncsLive
  <2>3. Live(t, d) => t.mem[d] = s.mem[d] /\ Live(s, d)
    BY <1>12, <1>14
  <2> QED BY <1>5, <1>18, <2>1, <2>2, <2>3
<1>26. ChainSync(t, ch)
  <2>1. t.sync[Disp] = s.sync[Disp]
    BY <1>4, <1>19
  <2>2. \A p \in Procs : t.proc[p].st = s.proc[p].st
    BY <1>11 DEF Framed
  <2> QED BY <1>1, <2>1, <2>2 DEF Rest, ChainSync
<1>27. ASSUME Owned(s) PROVE Owned(t)
  <2> SUFFICES ASSUME NEW z \in Mems, t.sync[z].live
               PROVE  \/ Live(t, z) /\ t.mem[z].kind = "alloc" /\ t.mem[z].sync = z
                      \/ \E b \in Addrs : t.syncTable[b] = z
    BY DEF Owned
  <2>1. CASE z = y
    <3>1. ~one
      <4>1. NoSyncInfo.live = FALSE
        BY DEF NoSyncInfo
      <4> QED BY <1>19, <2>1, <4>1
    <3> QED BY <1>19, <2>1, <3>1
  <2>2. CASE z # y
    <3>1. s.sync[z].live
      BY <1>19, <2>2
    <3>2. \/ Live(s, z) /\ s.mem[z].kind = "alloc" /\ s.mem[z].sync = z
          \/ \E b \in Addrs : s.syncTable[b] = z
      BY <1>27, <3>1 DEF Owned
    <3>3. CASE Live(s, z) /\ s.mem[z].kind = "alloc" /\ s.mem[z].sync = z
      <4>1. z # m
        BY <3>3
      <4> QED BY <1>12, <1>14, <3>3, <4>1
    <3>4. ASSUME NEW b \in Addrs, s.syncTable[b] = z PROVE t.syncTable[b] = z
      BY <1>3, <1>19, <2>2, <3>4
    <3> QED BY <3>2, <3>3, <3>4
  <2> QED BY <2>1, <2>2
<1>28. Released(s, t, m)
  BY <1>11, <1>13, <1>16 DEF Released
<1> QED BY <1>11, <1>17, <1>23, <1>24, <1>25, <1>26, <1>27, <1>28 DEF Core, Rest

(* A memory info in no context comes or goes.                              *)
LEMMA BalancedBeside ==
  ASSUME NEW s, Balanced(s), NEW t \in States, t.proc = s.proc, t.kref = s.kref,
         t.sync = s.sync, NEW m \in Mems, Beside(s, t, m),
         Live(s, m) => s.mem[m].ctx = Nobody, Live(t, m) => t.mem[m].ctx = Nobody
  PROVE  Balanced(t)
<1>1. \A c \in Contexts : c # Nobody
  BY DEF Contexts, Kernel, Nobody
<1>2. ASSUME NEW c \in Contexts
      PROVE  BuffersOf(t, c) = BuffersOf(s, c) /\ InContext(t, c) = InContext(s, c)
  <2>1. InContext(t, c) = InContext(s, c) /\ m \notin InContext(s, c)
    BY <1>1 DEF InContext, Beside
  <2>2. \A n \in InContext(s, c) : Buffer(t, n) = Buffer(s, n)
    BY <2>1 DEF InContext, Beside, Buffer
  <2> QED BY <2>1, <2>2 DEF BuffersOf
<1>3. LiveSyncs(t) = LiveSyncs(s)
  BY DEF LiveSyncs
<1>4. ASSUME NEW p \in Procs PROVE ContextExact(t, p)
  BY <1>2 DEF Balanced, ContextsExact, ContextExact, Contexts
<1>5. KernelExact(t)
  BY <1>2, <1>3 DEF Balanced, KernelExact, Contexts
<1> QED BY <1>4, <1>5 DEF Balanced, ContextsExact

(* Freeing shared system memory keeps the core.                            *)
LEMMA FreesSys ==
  ASSUME NEW s, NEW ch \in Procs \cup {Nobody}, Core(s, ch), NEW m \in Mems, Live(s, m),
         s.mem[m].kind = "sys",
         NEW t, t = FreeSharedSysMemCallBack(s, m)
  PROVE  Core(t, ch) /\ Released(s, t, m) /\ (Owned(s) => Owned(t))
<1>1. /\ Balanced(s) /\ Rest(s, ch) /\ s \in States /\ s.mem \in [Mems -> MemType]
      /\ s.proc \in [Procs -> ProcType]
  BY CoreFields
<1>2. s.mem[m] \in MemType /\ Freed(s.mem[m]) \in MemType
  BY <1>1, FreedFacts
<1>3. t = WithMem(s, [s.mem EXCEPT ![m] = Freed(s.mem[m])])
  BY <1>1, MemForm DEF FreeSharedSysMemCallBack
<1>4. /\ t.proc = s.proc /\ t.sync = s.sync /\ t.syncTable = s.syncTable /\ t.kref = s.kref
      /\ t.exports = s.exports /\ t.mem = [s.mem EXCEPT ![m] = Freed(s.mem[m])]
  BY <1>3 DEF WithMem
<1>5. t \in States
  <2>1. [s.mem EXCEPT ![m] = Freed(s.mem[m])] \in [Mems -> MemType]
    BY <1>1, <1>2
  <2> QED BY <1>1, <1>3, <2>1, WithTypes
<1>6. t.mem[m] = Freed(s.mem[m]) /\ \A d \in Mems \ {m} : t.mem[d] = s.mem[d]
  BY <1>1, <1>4
<1>7. /\ t.mem[m].st = "freed" /\ t.mem[m].kind = s.mem[m].kind /\ t.mem[m].p = s.mem[m].p
      /\ t.mem[m].h = s.mem[m].h /\ t.mem[m].refh = s.mem[m].refh
  <2>1. s.mem[m] \in MemType
    BY <1>2
  <2>2. t.mem[m] = Freed(s.mem[m])
    BY <1>6
  <2> QED BY <2>1, <2>2, FreedFacts
<1>8. s.mem[m].ctx = Nobody /\ t.mem[m].ctx = Nobody
  <2>1. s.mem[m].ctx = Nobody
    BY <1>1 DEF Rest, Shapes, Shape
  <2>2. Freed(s.mem[m]).ctx = Nobody
    BY DEF Freed, Unused
  <2> QED BY <1>6, <2>1, <2>2
<1>9. Beside(s, t, m)
  BY <1>6 DEF Beside, Live
<1>10. Balanced(t)
  BY <1>1, <1>4, <1>5, <1>8, <1>9, BalancedBeside
<1>11. ~Live(t, m) /\ \A d \in Mems \ {m} : Same(t.mem[d], s.mem[d])
  BY <1>6, <1>7 DEF Same, Live
<1>12. \A d \in Mems \ {m} : Extra(t, d) = Extra(s, d)
  <2> TAKE d \in Mems \ {m}
  <2>1. MapsOf(t, d) = MapsOf(s, d)
    BY <1>11, MapsKept
  <2> QED BY <1>6, <2>1 DEF Extra
<1>13. Others(s, t, m) /\ Framed(s, t)
  BY <1>4, <1>6, <1>11, <1>12 DEF Others, Framed
<1>14. Shapes(t) /\ Refs(t) /\ ExportsLive(t)
  BY <1>1, <1>4, <1>5, <1>7, <1>13, FreedRest
<1>15. \A a \in Addrs : s.syncTable[a] # m
  BY <1>1, NotInTable DEF Rest
<1>16. /\ NotWrap(s, m) /\ NotWrap(t, m) /\ t.mem[m].st # "unused"
       /\ \A p \in Procs : t.proc[p].st = s.proc[p].st
  BY <1>4, <1>11, <1>7 DEF NotWrap
<1>17. /\ TableExact(t) /\ WrapsShare(t) /\ SyncsLive(t) /\ ChainSync(t, ch)
       /\ Owned(s) /\ (t.sync[m].live => /\ Live(t, m) /\ t.mem[m].kind = "alloc"
                                         /\ t.mem[m].sync = m) => Owned(t)
  <2>1. t.syncTable = s.syncTable /\ t.sync = s.sync
    BY <1>4
  <2> QED BY <1>1, <1>5, <1>11, <1>13, <1>15, <1>16, <2>1, SyncsKept
<1>18. Owned(s) => Owned(t)
  BY <1>4, <1>15, <1>17 DEF Owned
<1>19. Released(s, t, m)
  BY <1>7, <1>13 DEF Released
<1> QED BY <1>10, <1>14, <1>17, <1>18, <1>19 DEF Core, Rest

(* Whatever kind of memory it is: freeing a live memory info of a process  *)
(* that is up, through the callback of its item, keeps the core of the     *)
(* invariant and leaves the others alone.                                  *)
LEMMA FreeKeeps ==
  ASSUME NEW s, NEW ch \in Procs \cup {Nobody}, Core(s, ch), NEW m \in Mems, Live(s, m),
         s.proc[s.mem[m].p].st = "up", s.mem[m].kind = "alloc" => Extra(s, m) = 1,
         NEW t, t = FreeResourceByPtr(s, m)
  PROVE  Core(t, ch) /\ Released(s, t, m) /\ (Owned(s) => Owned(t))
<1>1. s.mem[m].kind \in Kinds
  <2>1. s.mem \in [Mems -> MemType]
    BY CoreFields
  <2> QED BY <2>1 DEF MemType
<1>2. CASE s.mem[m].kind = "alloc"
  BY <1>2, FreesAlloc DEF FreeResourceByPtr
<1>3. CASE s.mem[m].kind = "wrap"
  BY <1>3, FreesWrap DEF FreeResourceByPtr
<1>4. CASE s.mem[m].kind = "map"
  BY <1>4, FreesMap DEF FreeResourceByPtr
<1>5. CASE s.mem[m].kind = "dc"
  BY <1>5, FreesDc DEF FreeResourceByPtr
<1>6. CASE s.mem[m].kind = "sys"
  BY <1>6, FreesSys DEF FreeResourceByPtr
<1> QED BY <1>1, <1>2, <1>3, <1>4, <1>5, <1>6 DEF Kinds

-----------------------------------------------------------------------------
(* Steps that change no memory info but in its handles.                    *)
Alike(s, t) ==
  /\ t.syncTable = s.syncTable /\ t.exports = s.exports
  /\ \A y \in Mems : t.sync[y] = s.sync[y]
  /\ \A d \in Mems : Same(t.mem[d], s.mem[d]) /\ t.mem[d].ref = s.mem[d].ref

(* Steps on handles change no mapping and no user of a synchronisation     *)
(* info.                                                                   *)
LEMMA AlikeMaps ==
  ASSUME NEW s, NEW t, Alike(s, t), NEW d
  PROVE  MapsOf(t, d) = MapsOf(s, d) /\ Users(t, d) = Users(s, d)
         /\ (d \in Mems => Extra(t, d) = Extra(s, d))
<1>1. \A n \in Mems : Same(t.mem[n], s.mem[n]) /\ t.mem[n].ref = s.mem[n].ref
  BY DEF Alike
<1>2. \A n \in Mems : n \in MapsOf(t, d) <=> n \in MapsOf(s, d)
  BY <1>1 DEF MapsOf, Live, Same
<1>3. \A n \in Mems : n \in Users(t, d) <=> n \in Users(s, d)
  BY <1>1 DEF Users, Live, Same
<1>4. MapsOf(t, d) = MapsOf(s, d)
  BY <1>2 DEF MapsOf
<1>5. Users(t, d) = Users(s, d)
  BY <1>3 DEF Users
<1> QED BY <1>1, <1>4, <1>5 DEF Extra

(* The synchronisation infos of memory infos, and who holds them, are as   *)
(* before.                                                                 *)
LEMMA SyncsAlike ==
  ASSUME NEW s \in States, NEW t, NEW ch, Rest(s, ch), t.syncTable = s.syncTable,
         \A y \in Mems : t.sync[y] = s.sync[y],
         \A d \in Mems : /\ t.mem[d].st = s.mem[d].st /\ t.mem[d].kind = s.mem[d].kind
                         /\ t.mem[d].sync = s.mem[d].sync
  PROVE  TableExact(t) /\ WrapsShare(t) /\ SyncsLive(t) /\ (Owned(s) => Owned(t))
<1>1. t.syncTable = s.syncTable /\ \A y \in Mems : t.sync[y] = s.sync[y]
  OBVIOUS
<1>2. \A d \in Mems : /\ t.mem[d].st = s.mem[d].st /\ t.mem[d].kind = s.mem[d].kind
                      /\ t.mem[d].sync = s.mem[d].sync /\ (Live(t, d) <=> Live(s, d))
  BY DEF Live
<1>3. \A z : Users(t, z) = Users(s, z)
  BY <1>2 DEF Users
<1>6. TableExact(t)
  <2> SUFFICES ASSUME NEW b \in Addrs, t.syncTable[b] # NoSync
               PROVE  LET z == t.syncTable[b] IN
                      /\ t.sync[z].live /\ t.sync[z].addr = b
                      /\ t.sync[z].ref = Cardinality(Users(t, z)) /\ t.sync[z].ref > 0
                      /\ t.mem[z].kind = "wrap" /\ t.mem[z].st # "unused"
    BY DEF TableExact
  <2>1. PICK z \in Mems : z = s.syncTable[b] /\ z = t.syncTable[b]
    BY <1>1 DEF States
  <2>2. LET x == s.syncTable[b] IN
            /\ s.sync[x].live /\ s.sync[x].addr = b
            /\ s.sync[x].ref = Cardinality(Users(s, x)) /\ s.sync[x].ref > 0
            /\ s.mem[x].kind = "wrap" /\ s.mem[x].st # "unused"
    <3>1. s.syncTable[b] # NoSync /\ TableExact(s)
      BY <1>1 DEF Rest
    <3> QED BY <3>1, Zenon DEF TableExact
  <2>3. t.sync[z] = s.sync[z] /\ t.mem[z].kind = s.mem[z].kind /\ t.mem[z].st = s.mem[z].st
    BY <1>1, <1>2
  <2>4. Users(t, z) = Users(s, z)
    BY <1>3
  <2> QED BY <2>1, <2>2, <2>3, <2>4
<1>7. WrapsShare(t)
  BY <1>1, <1>2 DEF Rest, WrapsShare
<1>8. SyncsLive(t)
  <2> SUFFICES ASSUME NEW m \in Mems
               PROVE  /\ Live(t, m) /\ t.mem[m].kind = "alloc" /\ t.mem[m].sync = m => t.sync[m].live
                      /\ t.mem[m].st = "unused" => ~t.sync[m].live
    BY DEF SyncsLive
  <2> QED BY <1>1, <1>2 DEF Rest, SyncsLive
<1>9. ASSUME Owned(s) PROVE Owned(t)
  <2> SUFFICES ASSUME NEW y \in Mems, t.sync[y].live
               PROVE  \/ Live(t, y) /\ t.mem[y].kind = "alloc" /\ t.mem[y].sync = y
                      \/ \E a \in Addrs : t.syncTable[a] = y
    BY DEF Owned
  <2>1. s.sync[y].live
    BY <1>1
  <2>2. \/ Live(s, y) /\ s.mem[y].kind = "alloc" /\ s.mem[y].sync = y
        \/ \E a \in Addrs : s.syncTable[a] = y
    BY <1>9, <2>1 DEF Owned
  <2> QED BY <1>1, <1>2, <2>2
<1> QED BY <1>6, <1>7, <1>8, <1>9

(* They keep all of the invariant that is not about handles, contexts or   *)
(* the swap chain.                                                         *)
LEMMA RestAlike ==
  ASSUME NEW s \in States, NEW t, NEW ch, NEW cht, Rest(s, ch), Alike(s, t),
         \A p \in Procs : s.proc[p].st # "new" => t.proc[p].st # "new",
         ChainSync(t, cht)
  PROVE  Rest(t, cht) /\ (Owned(s) => Owned(t))
<1>1. /\ t.syncTable = s.syncTable /\ t.exports = s.exports
      /\ \A y \in Mems : t.sync[y] = s.sync[y]
  BY DEF Alike
<1>2. \A d \in Mems : /\ t.mem[d].st = s.mem[d].st /\ t.mem[d].kind = s.mem[d].kind
                      /\ t.mem[d].p = s.mem[d].p /\ t.mem[d].ctx = s.mem[d].ctx
                      /\ t.mem[d].item = s.mem[d].item /\ t.mem[d].exported = s.mem[d].exported
                      /\ t.mem[d].sync = s.mem[d].sync /\ t.mem[d].src = s.mem[d].src
                      /\ t.mem[d].addr = s.mem[d].addr /\ (Live(t, d) <=> Live(s, d))
  BY DEF Alike, Same, Live
<1>3. Shapes(t)
  <2> SUFFICES ASSUME NEW m \in Mems, Live(t, m) PROVE Shape(t, m)
    BY DEF Shapes
  <2>1. Shape(s, m)
    BY <1>2 DEF Rest, Shapes
  <2>2. s.mem[m].p \in Procs /\ t.proc[s.mem[m].p].st # "new"
    BY <2>1 DEF Shape
  <2>3. CASE s.mem[m].kind # "map"
    BY <1>2, <2>1, <2>2, <2>3 DEF Shape
  <2>4. CASE s.mem[m].kind = "map"
    <3>1. PICK x \in Mems \ {m} : s.mem[m].src = x
      BY <2>1, <2>4 DEF Shape
    <3>2. t.mem[m].src = x
      BY <1>2, <3>1
    <3>3. /\ t.mem[x].st = s.mem[x].st /\ t.mem[x].kind = s.mem[x].kind
          /\ t.mem[x].exported = s.mem[x].exported /\ t.mem[x].sync = s.mem[x].sync
          /\ (Live(t, x) <=> Live(s, x))
      BY <1>2
    <3>4. /\ t.mem[m].kind = s.mem[m].kind /\ t.mem[m].p = s.mem[m].p
          /\ t.mem[m].ctx = s.mem[m].ctx /\ t.mem[m].addr = s.mem[m].addr
          /\ t.mem[m].sync = s.mem[m].sync
      BY <1>2
    <3> QED BY <2>1, <2>2, <2>4, <3>1, <3>2, <3>3, <3>4 DEF Shape
  <2> QED BY <2>3, <2>4
<1>4. Refs(t)
  <2> SUFFICES ASSUME NEW m \in Mems, Live(t, m) PROVE RefExact(t, m)
    BY DEF Refs
  <2>1. RefExact(s, m)
    BY <1>2 DEF Rest, Refs
  <2>2. Extra(t, m) = Extra(s, m)
    BY AlikeMaps
  <2> QED BY <1>2, <2>1, <2>2 DEF RefExact
<1>5. ExportsLive(t)
  <2>1. s.exports \subseteq Mems
    BY DEF States
  <2>2. ExportsLive(s)
    BY DEF Rest
  <2> SUFFICES ASSUME NEW m \in s.exports
               PROVE  /\ t.mem[m].st # "unused" /\ (t.mem[m].kind = "alloc" => Live(t, m))
                      /\ Live(t, m) => t.mem[m].exported
    BY <1>1 DEF ExportsLive
  <2>3. m \in Mems
    BY <2>1
  <2> QED BY <1>2, <2>2, <2>3 DEF ExportsLive
<1>6. TableExact(t) /\ WrapsShare(t) /\ SyncsLive(t) /\ (Owned(s) => Owned(t))
  BY <1>1, <1>2, SyncsAlike
<1> QED BY <1>3, <1>4, <1>5, <1>6 DEF Rest

(* The handles of memory infos change and nothing else does.               *)
LEMMA HandlesOnly ==
  ASSUME NEW s, NEW ch, Core(s, ch), NEW f \in [Mems -> MemType],
         \A d \in Mems : Same(f[d], s.mem[d]) /\ f[d].ref = s.mem[d].ref,
         NEW t, t = WithMem(s, f), ch # Nobody => ch \in Procs
  PROVE  /\ Core(t, ch) /\ (Owned(s) => Owned(t)) /\ Alike(s, t)
         /\ t.proc = s.proc /\ t.mem = f /\ t.sync = s.sync
<1>1. Balanced(s) /\ Rest(s, ch) /\ s \in States
  BY CoreFields
<1>2. /\ t.proc = s.proc /\ t.sync = s.sync /\ t.syncTable = s.syncTable /\ t.kref = s.kref
      /\ t.exports = s.exports /\ t.mem = f
  BY DEF WithMem
<1>3. t \in States
  BY <1>1, WithTypes
<1>4. Alike(s, t)
  BY <1>2 DEF Alike
<1>5. \A d \in Mems : /\ Live(t, d) <=> Live(s, d)
                      /\ t.mem[d].ctx = s.mem[d].ctx /\ t.mem[d].addr = s.mem[d].addr
  BY <1>2 DEF Live, Same
<1>6. Balanced(t)
  BY <1>1, <1>2, <1>3, <1>5, BalancedAlike
<1>7. ChainSync(t, ch)
  BY <1>1, <1>2 DEF Rest, ChainSync
<1>8. Rest(t, ch) /\ (Owned(s) => Owned(t))
  BY <1>1, <1>2, <1>4, <1>7, RestAlike
<1> QED BY <1>2, <1>4, <1>6, <1>8 DEF Core

(* The record of a memory info with other handles.                         *)
WithHandles(r, a, b) ==
  [st |-> r.st, kind |-> r.kind, p |-> r.p, ctx |-> r.ctx, item |-> r.item, ref |-> r.ref,
   exported |-> r.exported, sync |-> r.sync, src |-> r.src, addr |-> r.addr,
   h |-> a, refh |-> b]

(* The record of a memory info with other handles, and the model's updates *)
(* of handles as such records.                                             *)
LEMMA HandlesType ==
  ASSUME NEW r \in MemType, NEW a \in BOOLEAN, NEW b \in BOOLEAN
  PROVE  WithHandles(r, a, b) \in MemType
BY DEF WithHandles, MemType

(* Nothing but the handles has changed in it.                              *)
LEMMA HandlesFacts ==
  ASSUME NEW r, NEW a, NEW b
  PROVE  /\ Same(WithHandles(r, a, b), r) /\ WithHandles(r, a, b).ref = r.ref
         /\ WithHandles(r, a, b).h = a /\ WithHandles(r, a, b).refh = b
BY Zenon DEF WithHandles, Same

(* The update of the first handle,                                         *)
LEMMA HForm ==
  ASSUME NEW r \in MemType, NEW a
  PROVE  [r EXCEPT !.h = a] = WithHandles(r, a, r.refh)
<1>1. PICK st, kind, p, ctx, item, ref, ex, sy, src, ad, h, rh :
        r = [st |-> st, kind |-> kind, p |-> p, ctx |-> ctx, item |-> item, ref |-> ref,
                exported |-> ex, sync |-> sy, src |-> src, addr |-> ad, h |-> h, refh |-> rh]
  BY DEF MemType
<1> QED BY <1>1 DEF WithHandles

(* the same in a state,                                                    *)
LEMMA MemHForm ==
  ASSUME NEW s \in States, NEW m \in Mems, NEW a
  PROVE  [s EXCEPT !.mem[m].h = a] = WithMem(s, [s.mem EXCEPT ![m] = WithHandles(s.mem[m], a, s.mem[m].refh)])
<1>1. PICK f, c, q, d, e, g : s = [proc |-> f, mem |-> c, sync |-> q, syncTable |-> d,
                                   exports |-> e, kref |-> g]
  BY DEF States
<1>2. m \in DOMAIN c /\ c[m] \in MemType /\ c[m] = s.mem[m] /\ c = s.mem
  BY <1>1 DEF States
<1>3. [c[m] EXCEPT !.h = a] = WithHandles(c[m], a, c[m].refh)
  BY <1>2, HForm
<1>4. [s EXCEPT !.mem[m].h = a] =
        [proc |-> f, mem |-> [c EXCEPT ![m].h = a], sync |-> q,
         syncTable |-> d, exports |-> e, kref |-> g]
  BY <1>1
<1>5. [c EXCEPT ![m].h = a] = [c EXCEPT ![m] = WithHandles(c[m], a, c[m].refh)]
  BY <1>3
<1> QED BY <1>1, <1>2, <1>4, <1>5 DEF WithMem

(* the update of the second handle,                                        *)
LEMMA RefhForm ==
  ASSUME NEW r \in MemType, NEW a
  PROVE  [r EXCEPT !.refh = a] = WithHandles(r, r.h, a)
<1>1. PICK st, kind, p, ctx, item, ref, ex, sy, src, ad, h, rh :
        r = [st |-> st, kind |-> kind, p |-> p, ctx |-> ctx, item |-> item, ref |-> ref,
                exported |-> ex, sync |-> sy, src |-> src, addr |-> ad, h |-> h, refh |-> rh]
  BY DEF MemType
<1> QED BY <1>1 DEF WithHandles

(* and the release of both.                                                *)
LEMMA DropForm ==
  ASSUME NEW r \in MemType, NEW b
  PROVE  DropHandles(r, b) = WithHandles(r, FALSE, b)
<1>1. PICK st, kind, p, ctx, item, ref, ex, sy, src, ad, h, rh :
        r = [st |-> st, kind |-> kind, p |-> p, ctx |-> ctx, item |-> item, ref |-> ref,
                exported |-> ex, sync |-> sy, src |-> src, addr |-> ad, h |-> h, refh |-> rh]
  BY DEF MemType
<1>0. PICK a : a = FALSE
  OBVIOUS
<1>2. PICK x : x = [r EXCEPT !.h = a]
  OBVIOUS
<1>3. x = [st |-> st, kind |-> kind, p |-> p, ctx |-> ctx, item |-> item, ref |-> ref,
                exported |-> ex, sync |-> sy, src |-> src, addr |-> ad, h |-> a, refh |-> rh]
  BY <1>1, <1>2
<1>4. [x EXCEPT !.refh = b] = [st |-> st, kind |-> kind, p |-> p, ctx |-> ctx, item |-> item, ref |-> ref,
                exported |-> ex, sync |-> sy, src |-> src, addr |-> ad, h |-> a, refh |-> b]
  BY <1>3
<1>5. WithHandles(r, a, b) = [st |-> st, kind |-> kind, p |-> p, ctx |-> ctx, item |-> item, ref |-> ref,
                exported |-> ex, sync |-> sy, src |-> src, addr |-> ad, h |-> a, refh |-> b]
  BY <1>1 DEF WithHandles
<1>6. [r EXCEPT !.h = a, !.refh = b] = [x EXCEPT !.refh = b]
  BY <1>2, Zenon
<1>7. DropHandles(r, b) = [r EXCEPT !.h = a, !.refh = b]
  BY <1>0, Zenon DEF DropHandles
<1> QED BY <1>0, <1>4, <1>5, <1>6, <1>7, Zenon

(* The handle of m and the one made from it are set.                       *)
LEMMA SetHandles ==
  ASSUME NEW s, NEW ch, ch # Nobody => ch \in Procs, Core(s, ch), NEW m \in Mems,
         NEW a \in BOOLEAN, NEW b \in BOOLEAN,
         NEW t, t = WithMem(s, [s.mem EXCEPT ![m] = WithHandles(s.mem[m], a, b)])
  PROVE  /\ Core(t, ch) /\ (Owned(s) => Owned(t)) /\ Alike(s, t)
         /\ t.proc = s.proc /\ t.sync = s.sync
         /\ t.mem[m].h = a /\ t.mem[m].refh = b
         /\ \A d \in Mems \ {m} : t.mem[d] = s.mem[d]
<1>1. s.mem \in [Mems -> MemType] /\ s.mem[m] \in MemType
  BY CoreFields
<1>2. PICK r \in MemType : r = s.mem[m]
  BY <1>1
<1>3. PICK w \in MemType : w = WithHandles(r, a, b)
  BY HandlesType
<1>4. Same(w, r) /\ w.ref = r.ref /\ w.h = a /\ w.refh = b
  BY <1>3, HandlesFacts
<1>5. PICK f \in [Mems -> MemType] : f = [s.mem EXCEPT ![m] = w]
  BY <1>1
<1>6. f[m] = w /\ \A d \in Mems \ {m} : f[d] = s.mem[d]
  BY <1>1, <1>5
<1>7. \A d \in Mems : Same(f[d], s.mem[d]) /\ f[d].ref = s.mem[d].ref
  BY <1>2, <1>4, <1>6 DEF Same
<1>8. t = WithMem(s, f)
  BY <1>2, <1>3, <1>5
<1>9. /\ Core(t, ch) /\ (Owned(s) => Owned(t)) /\ Alike(s, t)
      /\ t.proc = s.proc /\ t.mem = f /\ t.sync = s.sync
  BY <1>7, <1>8, HandlesOnly
<1> QED BY <1>4, <1>6, <1>9

(* Freeing what a handle names, and releasing the handle, keeps the        *)
(* invariant.                                                              *)
LEMMA FreeGood ==
  ASSUME NEW s, NEW ch \in Procs \cup {Nobody}, Good(s, ch), NEW m \in Mems, s.mem[m].h,
         NEW t, t = ReleaseHandle(FreeResourceByPtr(s, m), m)
  PROVE  Good(t, ch) /\ (Owned(s) => Owned(t)) /\ \A q \in Procs : t.proc[q].st = s.proc[q].st
<1>1. Core(s, ch) /\ Handles(s, ch)
  BY DEF Good
<1>2. Live(s, m) /\ s.proc[s.mem[m].p].st = "up" /\ (s.mem[m].kind = "alloc" => Extra(s, m) = 1)
  BY <1>1 DEF Handles
<1>3. PICK u : u = FreeResourceByPtr(s, m)
  OBVIOUS
<1>4. Core(u, ch) /\ Released(s, u, m) /\ (Owned(s) => Owned(u))
  BY <1>1, <1>2, <1>3, FreeKeeps
<1>5. u \in States /\ u.mem \in [Mems -> MemType]
  BY <1>4, CoreFields
<1>6. PICK a \in BOOLEAN : a = FALSE
  OBVIOUS
<1>7. PICK b \in BOOLEAN : b = (u.mem[m].refh /\ u.mem[m].kind = "dc")
  OBVIOUS
<1>8. DropHandles(u.mem[m], b) = WithHandles(u.mem[m], a, b)
  <2>1. u.mem[m] \in MemType
    BY <1>5
  <2> QED BY <1>6, <2>1, DropForm, Zenon
<1>9. t = WithMem(u, [u.mem EXCEPT ![m] = WithHandles(u.mem[m], a, b)])
  <2>1. PICK r : r = WithHandles(u.mem[m], a, b)
    OBVIOUS
  <2>2. t = [u EXCEPT !.mem[m] = r]
    BY <1>3, <1>7, <1>8, <2>1, Zenon DEF ReleaseHandle
  <2> QED BY <1>5, <2>1, <2>2, MemForm
<1>10. /\ Core(t, ch) /\ (Owned(u) => Owned(t)) /\ Alike(u, t)
       /\ t.proc = u.proc /\ t.sync = u.sync
       /\ t.mem[m].h = a /\ t.mem[m].refh = b
       /\ \A d \in Mems \ {m} : t.mem[d] = u.mem[d]
  <2>1. PICK z : z = WithMem(u, [u.mem EXCEPT ![m] = WithHandles(u.mem[m], a, b)])
    OBVIOUS
  <2>2. Core(u, ch) /\ (ch # Nobody => ch \in Procs)
    BY <1>4
  <2>3. /\ Core(z, ch) /\ (Owned(u) => Owned(z)) /\ Alike(u, z)
        /\ z.proc = u.proc /\ z.sync = u.sync
        /\ z.mem[m].h = a /\ z.mem[m].refh = b
        /\ \A d \in Mems \ {m} : z.mem[d] = u.mem[d]
    BY <2>1, <2>2, SetHandles
  <2>4. t = z
    BY <1>9, <2>1, Zenon
  <2> QED BY <2>3, <2>4
<1>11. Handles(t, ch)
  <2> SUFFICES ASSUME NEW d \in Mems
               PROVE  /\ t.mem[d].h => /\ Live(t, d) /\ t.proc[t.mem[d].p].st = "up"
                                       /\ t.mem[d].kind = "dc" => ch = t.mem[d].p
                                       /\ t.mem[d].kind = "alloc" => Extra(t, d) = 1
                      /\ t.mem[d].refh /\ t.mem[d].kind # "dc" => t.mem[d].h
    BY DEF Handles
  <2>1. CASE d = m
    <3>1. t.mem[m].kind = u.mem[m].kind
      BY <1>10 DEF Alike, Same
    <3> QED BY <1>6, <1>7, <1>10, <2>1, <3>1
  <2>2. CASE d # m
    <3>1. /\ Same(u.mem[d], s.mem[d]) /\ u.mem[d].h = s.mem[d].h /\ u.mem[d].refh = s.mem[d].refh
          /\ Live(s, d) => Extra(u, d) = Extra(s, d)
      BY <1>4, <2>2 DEF Released, Others
    <3>2. t.mem[d] = u.mem[d] /\ Extra(t, d) = Extra(u, d)
      BY <1>10, <2>2, AlikeMaps
    <3>3. \A q \in Procs : t.proc[q].st = s.proc[q].st
      BY <1>4, <1>10 DEF Released, Framed
    <3>4. /\ s.mem[d].h => /\ Live(s, d) /\ s.proc[s.mem[d].p].st = "up"
                           /\ s.mem[d].kind = "dc" => ch = s.mem[d].p
                           /\ s.mem[d].kind = "alloc" => Extra(s, d) = 1
          /\ s.mem[d].refh /\ s.mem[d].kind # "dc" => s.mem[d].h
      BY <1>1 DEF Handles
    <3>5. Live(s, d) => s.mem[d].p \in Procs
      BY <1>1 DEF Core, Rest, Shapes, Shape
    <3> QED BY <3>1, <3>2, <3>3, <3>4, <3>5 DEF Live, Same
  <2> QED BY <2>1, <2>2
<1>12. \A q \in Procs : t.proc[q].st = s.proc[q].st
  BY <1>4, <1>10 DEF Released, Framed
<1> QED BY <1>4, <1>10, <1>11, <1>12 DEF Good

-----------------------------------------------------------------------------
(* No step but its death ends a process.                                   *)
Steady == \A q \in Procs : proc[q].st = "up" => proc'[q].st = "up"

(* A call that leaves the states of the processes alone ends none.         *)
LEMMA SteadyBecomes ==
  ASSUME NEW t, Becomes(t), \A q \in Procs : t.proc[q].st = proc[q].st
  PROVE  Steady
BY DEF Becomes, Steady

(* A call that leaves t behind.                                            *)
LEMMA Lands ==
  ASSUME NEW t, Becomes(t), t \in States
  PROVE  Now' = t
BY StateFields DEF Now, Becomes

(* Where the state a call leaves behind is good, the invariant holds after *)
(* it.                                                                     *)
LEMMA Settles ==
  ASSUME NEW t, Becomes(t), Good(t, chain'), faults' = 0 => Owned(t),
         chain' \in Procs \cup {Nobody}, load' \in Loads, faults' \in 0..load'.faults
  PROVE  GInv'
<1>1. Now' = t
  BY Lands DEF Good, Core, Balanced
<1> QED BY <1>1 DEF GInv, Now

(* What the invariant says of the variables.                               *)
LEMMA Unfold ==
  ASSUME GInv
  PROVE  /\ Good(Now, chain) /\ Core(Now, chain) /\ Handles(Now, chain)
         /\ Balanced(Now) /\ Rest(Now, chain) /\ Now \in States
         /\ (faults = 0 => Owned(Now))
         /\ chain \in Procs \cup {Nobody} /\ load \in Loads /\ load.faults \in Nat
         /\ faults \in 0..load.faults
         /\ Now.proc = proc /\ Now.mem = mem /\ Now.sync = sync
         /\ Now.syncTable = syncTable /\ Now.exports = exports /\ Now.kref = kref
<1>1. /\ Now.proc = proc /\ Now.mem = mem /\ Now.sync = sync
      /\ Now.syncTable = syncTable /\ Now.exports = exports /\ Now.kref = kref
  BY DEF Now
<1> QED BY <1>1, LoadsAssumption DEF GInv, Good, Core, Balanced

(* A step that frees what a handle of a live process names.                *)
LEMMA FreeStep ==
  ASSUME GInv, NEW p \in Procs, NEW m \in Mems, HasHandle(p, m),
         Becomes(ReleaseHandle(FreeResourceByPtr(Now, m), m)),
         UNCHANGED <<chain, load, faults>>
  PROVE  GInv' /\ Steady
<1>1. /\ Good(Now, chain) /\ (faults = 0 => Owned(Now)) /\ Now.mem[m].h
      /\ Now.proc = proc /\ chain \in Procs \cup {Nobody} /\ load \in Loads /\ faults \in 0..load.faults
  BY Unfold DEF HasHandle
<1>2. PICK t : t = ReleaseHandle(FreeResourceByPtr(Now, m), m)
  OBVIOUS
<1>3. Good(t, chain) /\ (Owned(Now) => Owned(t)) /\ \A q \in Procs : t.proc[q].st = Now.proc[q].st
  BY <1>1, <1>2, FreeGood
<1>4. Steady
  BY <1>1, <1>2, <1>3, SteadyBecomes
<1> QED BY <1>1, <1>2, <1>3, <1>4, Settles

(* The five calls that free memory through its handle.                     *)
LEMMA FreeActions ==
  ASSUME GInv, NEW p \in Procs, NEW m \in Mems,
         \/ PVRSRVFreeDeviceMemBW(p, m) \/ PVRSRVUnmapDeviceMemoryBW(p, m)
         \/ PVRSRVUnmapDeviceClassMemoryBW(p, m) \/ PVRSRVUnwrapExtMemoryBW(p, m)
         \/ PVRSRVFreeSharedSysMemoryBW(p, m)
  PROVE  GInv' /\ Steady
<1>1. CASE PVRSRVFreeDeviceMemBW(p, m)
  BY <1>1, FreeStep DEF PVRSRVFreeDeviceMemBW, PVRSRVFreeDeviceMemKM
<1>2. CASE FreeByHandle(p, m)
  BY <1>2, FreeStep DEF FreeByHandle
<1>3. CASE PVRSRVFreeSharedSysMemoryBW(p, m)
  <2>1. Now.mem[m].kind = "sys"
    BY <1>3, Unfold DEF PVRSRVFreeSharedSysMemoryBW
  <2>2. FreeResourceByPtr(Now, m) = FreeSharedSysMemCallBack(Now, m)
    BY <2>1 DEF FreeResourceByPtr
  <2> QED BY <1>3, <2>2, FreeStep DEF PVRSRVFreeSharedSysMemoryBW
<1> QED BY <1>1, <1>2, <1>3 DEF PVRSRVUnmapDeviceMemoryBW, PVRSRVUnmapDeviceClassMemoryBW, PVRSRVUnwrapExtMemoryBW

-----------------------------------------------------------------------------
(* Steps that change nothing but a process.                                *)
LEMMA ProcStep ==
  ASSUME NEW s, NEW ch \in Procs \cup {Nobody}, Good(s, ch), NEW c \in Procs, NEW r \in ProcType,
         NEW t, t = WithProc(s, c, r), ContextExact(t, c),
         s.proc[c].st = "up" => r.st = "up", s.proc[c].st # "new" => r.st # "new"
  PROVE  Good(t, ch) /\ (Owned(s) => Owned(t))
<1>1. Balanced(s) /\ Rest(s, ch) /\ s \in States /\ s.proc \in [Procs -> ProcType] /\ Handles(s, ch)
  BY CoreFields DEF Good
<1>2. /\ t.mem = s.mem /\ t.sync = s.sync /\ t.syncTable = s.syncTable /\ t.kref = s.kref
      /\ t.exports = s.exports /\ t.proc = [s.proc EXCEPT ![c] = r]
  BY DEF WithProc
<1>3. t.proc[c] = r /\ \A p \in Procs \ {c} : t.proc[p] = s.proc[p]
  BY <1>1, <1>2
<1>4. t \in States
  BY <1>1, WithProcType
<1>5. Balanced(t)
  <2>1. ASSUME NEW p \in Procs PROVE ContextExact(t, p)
    <3>1. CASE p = c
      BY <3>1
    <3>2. CASE p # c
      <4>1. BuffersOf(t, p) = BuffersOf(s, p) /\ InContext(t, p) = InContext(s, p)
        BY <1>2, SameMem
      <4> QED BY <1>1, <1>3, <3>2, <4>1 DEF Balanced, ContextsExact, ContextExact
    <3> QED BY <3>1, <3>2
  <2>2. KernelExact(t)
    <3>1. BuffersOf(t, Kernel) = BuffersOf(s, Kernel) /\ LiveSyncs(t) = LiveSyncs(s)
      BY <1>2, SameMem DEF LiveSyncs
    <3> QED BY <1>1, <1>2, <3>1 DEF Balanced, KernelExact
  <2> QED BY <1>4, <2>1, <2>2 DEF Balanced, ContextsExact
<1>6. Alike(s, t)
  BY <1>2 DEF Alike, Same
<1>7. ChainSync(t, ch)
  BY <1>1, <1>2, <1>3 DEF Rest, ChainSync
<1>8. \A p \in Procs : s.proc[p].st # "new" => t.proc[p].st # "new"
  BY <1>3
<1>9. Rest(t, ch) /\ (Owned(s) => Owned(t))
  BY <1>1, <1>6, <1>7, <1>8, RestAlike
<1>10. Handles(t, ch)
  <2> SUFFICES ASSUME NEW d \in Mems
               PROVE  /\ t.mem[d].h => /\ Live(t, d) /\ t.proc[t.mem[d].p].st = "up"
                                       /\ t.mem[d].kind = "dc" => ch = t.mem[d].p
                                       /\ t.mem[d].kind = "alloc" => Extra(t, d) = 1
                      /\ t.mem[d].refh /\ t.mem[d].kind # "dc" => t.mem[d].h
    BY DEF Handles
  <2>1. Extra(t, d) = Extra(s, d)
    BY <1>6, AlikeMaps
  <2>2. s.mem[d].h => s.mem[d].p \in Procs /\ s.proc[s.mem[d].p].st = "up"
    BY <1>1 DEF Handles, Rest, Shapes, Shape
  <2>3. s.mem[d].h => t.proc[s.mem[d].p].st = "up"
    BY <1>3, <2>2
  <2> QED BY <1>1, <1>2, <2>1, <2>3 DEF Handles, Live
<1> QED BY <1>5, <1>9, <1>10 DEF Good, Core

(* A call that changes one process and no memory, as an action.            *)
LEMMA ProcAction ==
  ASSUME GInv, NEW c \in Procs, NEW r \in ProcType, ContextExact(WithProc(Now, c, r), c),
         proc[c].st = "up" => r.st = "up", proc[c].st # "new" => r.st # "new",
         proc' = [proc EXCEPT ![c] = r],
         UNCHANGED <<mem, sync, syncTable, exports, kref, chain>>,
         load' = load, faults' \in 0..load.faults, faults' >= faults
  PROVE  GInv' /\ Steady
<1>1. /\ Good(Now, chain) /\ (faults = 0 => Owned(Now)) /\ Now.proc = proc
      /\ chain \in Procs \cup {Nobody} /\ load \in Loads /\ faults \in Nat
  BY Unfold
<1>2. PICK t : t = WithProc(Now, c, r)
  OBVIOUS
<1>3. Good(t, chain) /\ (Owned(Now) => Owned(t))
  <2>1. /\ Good(Now, chain) /\ chain \in Procs \cup {Nobody} /\ ContextExact(t, c)
        /\ (Now.proc[c].st = "up" => r.st = "up") /\ (Now.proc[c].st # "new" => r.st # "new")
    BY <1>1, <1>2
  <2> QED BY <1>2, <2>1, ProcStep
<1>4. Becomes(t)
  BY <1>2 DEF Becomes, WithProc, Now
<1>5. faults' = 0 => faults = 0
  BY <1>1
<1>6. Steady
  <2>1. proc \in [Procs -> ProcType]
    BY <1>1 DEF Good, Core, Balanced, States
  <2> QED BY <2>1 DEF Steady
<1> QED BY <1>1, <1>3, <1>4, <1>5, <1>6, Settles

(* A record of a process that suits the buffers in its context.            *)
Fits(s, c, r) ==
  /\ r.ctx.live => /\ r.ctx.ref = r.ctx.open + r.ctx.lost + Cardinality(BuffersOf(s, c))
                   /\ r.ctx.ref > 0
  /\ ~r.ctx.live => r.ctx = NoContext
  /\ r.ctx.h => r.ctx.live /\ r.ctx.open > 0
  /\ r.st = "up" /\ InContext(s, c) # {} => r.ctx.live
  /\ r.st # "up" => ~r.ctx.live

(* A process that gets a record that fits has an exact context.            *)
LEMMA FitsExact ==
  ASSUME NEW s \in States, NEW c \in Procs, NEW r, Fits(s, c, r)
  PROVE  ContextExact(WithProc(s, c, r), c)
<1>1. PICK t : t = WithProc(s, c, r)
  OBVIOUS
<1>2. t.mem = s.mem /\ t.proc[c] = r
  BY <1>1 DEF WithProc, States
<1>3. BuffersOf(t, c) = BuffersOf(s, c) /\ InContext(t, c) = InContext(s, c)
  BY <1>2, SameMem
<1>4. ContextExact(t, c)
  BY <1>2, <1>3 DEF Fits, ContextExact
<1> QED BY <1>1, <1>4

(* The record a process has fits.                                          *)
LEMMA ProcFacts ==
  ASSUME GInv, NEW c \in Procs
  PROVE  /\ proc[c] \in ProcType /\ Fits(Now, c, proc[c])
         /\ proc[c].ctx.ref \in Nat /\ proc[c].ctx.open \in Nat /\ proc[c].ctx.lost \in Nat
         /\ Cardinality(BuffersOf(Now, c)) \in Nat
         /\ (InContext(Now, c) = {} => Cardinality(BuffersOf(Now, c)) = 0)
         /\ proc[c].st = "new" => InContext(Now, c) = {}
<1>1. Balanced(Now) /\ Rest(Now, chain) /\ Now \in States /\ Now.proc = proc
  BY Unfold
<1>2. proc \in [Procs -> ProcType] /\ ContextExact(Now, c)
  BY <1>1 DEF Balanced, ContextsExact, States
<1>3. proc[c] \in ProcType /\ Fits(Now, c, proc[c])
  BY <1>1, <1>2 DEF ContextExact, Fits
<1>4. proc[c].ctx.ref \in Nat /\ proc[c].ctx.open \in Nat /\ proc[c].ctx.lost \in Nat
  BY <1>3 DEF ProcType, ContextType
<1>5. ASSUME proc[c].st = "new", NEW m \in InContext(Now, c) PROVE FALSE
  <2>1. m \in Mems /\ Live(Now, m) /\ Now.mem[m].ctx = c
    BY <1>5 DEF InContext
  <2>2. Shape(Now, m)
    BY <1>1, <2>1 DEF Rest, Shapes
  <2>3. Now.mem[m].kind \in Kinds
    BY <1>1, <2>1 DEF States, MemType
  <2>4. c # Kernel /\ c # Nobody
    OBVIOUS
  <2>5. Now.mem[m].p = c
    BY <2>1, <2>2, <2>3, <2>4 DEF Shape, Kinds
  <2> QED BY <1>1, <1>5, <2>2, <2>5 DEF Shape
<1> QED BY <1>3, <1>4, <1>5, BuffersFinite

(* PVRSRVConnect keeps the invariant.                                      *)
LEMMA ConnectAction ==
  ASSUME GInv, NEW p \in Procs, PVRSRVConnect(p)
  PROVE  GInv' /\ Steady
<1>1. PICK r : r = [proc[p] EXCEPT !.st = "up"]
  OBVIOUS
<1>2. proc[p] \in ProcType /\ proc[p].st = "new"
  BY ProcFacts DEF PVRSRVConnect
<1>3. r \in ProcType /\ r.st = "up" /\ r.ctx = proc[p].ctx
  BY <1>1, <1>2 DEF ProcType
<1>4. Fits(Now, p, r)
  <2>1. Fits(Now, p, proc[p]) /\ InContext(Now, p) = {}
    BY <1>2, ProcFacts
  <2> QED BY <1>2, <1>3, <2>1 DEF Fits
<1>5. Now \in States /\ faults \in 0..load.faults /\ load.faults \in Nat
  BY Unfold
<1>6. ContextExact(WithProc(Now, p, r), p)
  BY <1>4, <1>5, FitsExact
<1>7. proc' = [proc EXCEPT ![p] = r]
  BY <1>1 DEF PVRSRVConnect
<1>8. UNCHANGED <<mem, sync, syncTable, exports, kref, chain>> /\ load' = load /\ faults' = faults
  BY DEF PVRSRVConnect
<1>9. faults' \in 0..load.faults /\ faults' >= faults
  BY <1>5, <1>8
<1> QED BY <1>2, <1>3, <1>6, <1>7, <1>8, <1>9, ProcAction

(* The faults that were met never decrease, and stay within the load.      *)
LEMMA MeetsFacts ==
  ASSUME GInv, NEW f, Meets(f)
  PROVE  load' = load /\ faults' \in 0..load.faults /\ faults' >= faults /\ (faults' = 0 => faults = 0)
         /\ (f # "none" => faults' # 0)
<1>1. faults \in 0..load.faults /\ load.faults \in Nat
  BY Unfold
<1> QED BY <1>1 DEF Meets

(* PVRSRVGetDeviceMemHeapInfoBW keeps the invariant.                       *)
LEMMA GetHeapInfoAction ==
  ASSUME GInv, NEW p \in Procs, PVRSRVGetDeviceMemHeapInfoBW(p)
  PROVE  GInv' /\ Steady
<1>1. PICK r : r = [proc[p] EXCEPT !.heaps = TRUE]
  OBVIOUS
<1>2. proc[p] \in ProcType
  BY ProcFacts
<1>3. r \in ProcType /\ r.st = proc[p].st /\ r.ctx = proc[p].ctx
  BY <1>1, <1>2 DEF ProcType
<1>4. Fits(Now, p, r)
  BY <1>3, ProcFacts DEF Fits
<1>5. Now \in States /\ faults \in 0..load.faults /\ load.faults \in Nat
  BY Unfold
<1>6. ContextExact(WithProc(Now, p, r), p)
  BY <1>4, <1>5, FitsExact
<1>7. proc' = [proc EXCEPT ![p] = r] /\ UNCHANGED <<mem, sync, syncTable, exports, kref>>
  <2>1. PICK w : w = TRUE
    OBVIOUS
  <2>2. PICK t : t = PVRSRVGetDeviceMemHeapInfoKM(Now, p)
    OBVIOUS
  <2>3. t = [Now EXCEPT !.proc[p].heaps = w]
    BY <2>1, <2>2, Zenon DEF PVRSRVGetDeviceMemHeapInfoKM
  <2>4. t = [proc |-> [proc EXCEPT ![p].heaps = w], mem |-> mem, sync |-> sync,
             syncTable |-> syncTable, exports |-> exports, kref |-> kref]
    BY <2>3 DEF Now
  <2>5. Becomes(t)
    BY <2>2 DEF PVRSRVGetDeviceMemHeapInfoBW
  <2>6. proc' = [proc EXCEPT ![p].heaps = w] /\ UNCHANGED <<mem, sync, syncTable, exports, kref>>
    BY <2>4, <2>5 DEF Becomes
  <2>7. r = [proc[p] EXCEPT !.heaps = w]
    BY <1>1, <2>1, Zenon
  <2> QED BY <2>6, <2>7
<1>8. chain' = chain /\ load' = load /\ faults' = faults
  BY DEF PVRSRVGetDeviceMemHeapInfoBW
<1>9. faults' \in 0..load.faults /\ faults' >= faults
  BY <1>5, <1>8
<1> QED BY <1>2, <1>3, <1>6, <1>7, <1>8, <1>9, ProcAction

(* PVRSRVCreateDeviceMemContextBW keeps it: the first call makes the       *)
(* context, a later one takes a reference and counts it as an open or as a *)
(* lost one.                                                               *)
LEMMA CreateContextAction ==
  ASSUME GInv, NEW p \in Procs, NEW f \in {"none", "commit"},
         PVRSRVCreateDeviceMemContextBW(p, f)
  PROVE  GInv' /\ Steady
<1> DEFINE c == proc[p].ctx
           k == PVRSRVCreateDeviceMemContextKM(c)
           n == Cardinality(BuffersOf(Now, p))
<1>1. /\ proc[p] \in ProcType /\ Fits(Now, p, proc[p])
      /\ c.ref \in Nat /\ c.open \in Nat /\ c.lost \in Nat /\ n \in Nat
      /\ (InContext(Now, p) = {} => n = 0)
  BY ProcFacts
<1>2. proc[p].st = "up" /\ Now \in States
  BY Unfold DEF PVRSRVCreateDeviceMemContextBW, Up
<1>3. c \in ContextType
  BY <1>1 DEF ProcType
<1>4. load' = load /\ faults' \in 0..load.faults /\ faults' >= faults
  BY MeetsFacts DEF PVRSRVCreateDeviceMemContextBW
<1>5. UNCHANGED <<mem, sync, syncTable, exports, kref, chain>>
  BY DEF PVRSRVCreateDeviceMemContextBW
<1>6. SUFFICES \E r \in ProcType : /\ Fits(Now, p, r) /\ r.st = "up"
                                   /\ proc' = [proc EXCEPT ![p] = r]
  <2>1. PICK r \in ProcType : Fits(Now, p, r) /\ r.st = "up" /\ proc' = [proc EXCEPT ![p] = r]
    BY <1>6
  <2>2. ContextExact(WithProc(Now, p, r), p)
    BY <1>2, <2>1, FitsExact
  <2> QED BY <1>2, <1>4, <1>5, <2>1, <2>2, ProcAction
<1>7. CASE ~c.live
  <2>1. k = [live |-> TRUE, ref |-> 1, open |-> 0, h |-> FALSE, lost |-> 0]
    BY <1>7 DEF PVRSRVCreateDeviceMemContextKM, NoContext
  <2> DEFINE b == f = "none"
             q == [k EXCEPT !.open = 1, !.h = b]
             r == [proc[p] EXCEPT !.heaps = @ \/ b, !.ctx = q]
  <2>2. q = [live |-> TRUE, ref |-> 1, open |-> 1, h |-> b, lost |-> 0]
    <3> HIDE DEF k
    <3>1. PICK w : w = [k EXCEPT !.open = 1]
      OBVIOUS
    <3>2. PICK y, n0 : y = TRUE /\ n0 = FALSE
      OBVIOUS
    <3>3. k = [live |-> y, ref |-> 1, open |-> 0, h |-> n0, lost |-> 0]
      BY <2>1, <3>2, Zenon
    <3>4. w = [live |-> y, ref |-> 1, open |-> 1, h |-> n0, lost |-> 0]
      BY <3>1, <3>3
    <3>5. PICK v : v = b
      OBVIOUS
    <3>6. [w EXCEPT !.h = v] = [live |-> y, ref |-> 1, open |-> 1, h |-> v, lost |-> 0]
      BY <3>4
    <3> QED BY <3>1, <3>2, <3>5, <3>6, Zenon
  <2>3. proc' = [proc EXCEPT ![p] = r]
    BY <1>7, Zenon DEF PVRSRVCreateDeviceMemContextBW
  <2>4. InContext(Now, p) = {} /\ n = 0
    BY <1>1, <1>2, <1>7 DEF Fits
  <2>5. q \in ContextType /\ q.live /\ q.ref = 1 /\ q.open = 1 /\ q.lost = 0
    <3>1. b \in BOOLEAN
      OBVIOUS
    <3> HIDE DEF b, q
    <3> QED BY <2>2, <3>1 DEF ContextType
  <2>6. r \in ProcType /\ r.st = "up" /\ r.ctx = q
    <3>1. (proc[p].heaps \/ b) \in BOOLEAN
      OBVIOUS
    <3>2. PICK z \in BOOLEAN : z = (proc[p].heaps \/ b)
      BY <3>1
    <3> HIDE DEF b, q
    <3>3. [proc[p] EXCEPT !.heaps = z, !.ctx = q] \in ProcType
          /\ [proc[p] EXCEPT !.heaps = z, !.ctx = q].st = "up"
          /\ [proc[p] EXCEPT !.heaps = z, !.ctx = q].ctx = q
      BY <1>1, <1>2, <2>5 DEF ProcType
    <3> QED BY <3>2, <3>3, Zenon
  <2> HIDE DEF q, r
  <2>7. Fits(Now, p, r)
    BY <2>4, <2>5, <2>6 DEF Fits
  <2> QED BY <2>3, <2>6, <2>7
<1>8. CASE c.live /\ c.h
  <2> DEFINE q == [k EXCEPT !.open = @ + 1]
             r == [proc[p] EXCEPT !.ctx = q]
  <2>1. /\ q \in ContextType /\ q.live /\ q.ref = c.ref + 1 /\ q.open = c.open + 1
        /\ q.lost = c.lost /\ q.h = c.h
    <3>1. PICK li, re, op, ha, lo : c = [live |-> li, ref |-> re, open |-> op, h |-> ha, lost |-> lo]
      BY <1>3 DEF ContextType
    <3>2. c.live = li /\ c.ref = re /\ c.open = op /\ c.h = ha /\ c.lost = lo
      BY <3>1
    <3>3. k = [c EXCEPT !.ref = @ + 1]
      BY <1>8 DEF PVRSRVCreateDeviceMemContextKM
    <3>4. PICK d : d = c
      OBVIOUS
    <3>5. k = [d EXCEPT !.ref = @ + 1] /\ d = [live |-> li, ref |-> re, open |-> op, h |-> ha, lost |-> lo]
      BY <3>1, <3>3, <3>4
    <3> HIDE DEF k, c
    <3>6. k = [live |-> li, ref |-> re + 1, open |-> op, h |-> ha, lost |-> lo]
      BY <3>5
    <3>7. q = [live |-> li, ref |-> re + 1, open |-> op + 1, h |-> ha, lost |-> lo]
      BY <3>6
    <3>8. q.live = li /\ q.ref = re + 1 /\ q.open = op + 1 /\ q.lost = lo /\ q.h = ha
      BY <3>7, Zenon
    <3>9. li \in BOOLEAN /\ re \in Nat /\ op \in Nat /\ ha \in BOOLEAN /\ lo \in Nat
      BY <1>3, <3>2 DEF ContextType
    <3>10. q \in ContextType
      BY <3>7, <3>9 DEF ContextType
    <3> QED BY <1>8, <3>2, <3>8, <3>10
  <2>2. proc' = [proc EXCEPT ![p] = r]
    BY <1>8, Zenon DEF PVRSRVCreateDeviceMemContextBW
  <2> HIDE DEF q
  <2>3. r \in ProcType /\ r.st = "up" /\ r.ctx = q
    BY <1>1, <1>2, <2>1 DEF ProcType
  <2> HIDE DEF r
  <2>4. Fits(Now, p, r)
    BY <1>1, <1>8, <2>1, <2>3 DEF Fits
  <2> QED BY <2>2, <2>3, <2>4
<1>9. CASE c.live /\ ~c.h
  <2> DEFINE q == [k EXCEPT !.lost = @ + 1]
             r == [proc[p] EXCEPT !.ctx = q]
  <2>1. /\ q \in ContextType /\ q.live /\ q.ref = c.ref + 1 /\ q.lost = c.lost + 1
        /\ q.open = c.open /\ q.h = c.h
    <3>1. PICK li, re, op, ha, lo : c = [live |-> li, ref |-> re, open |-> op, h |-> ha, lost |-> lo]
      BY <1>3 DEF ContextType
    <3>2. c.live = li /\ c.ref = re /\ c.open = op /\ c.h = ha /\ c.lost = lo
      BY <3>1
    <3>3. k = [c EXCEPT !.ref = @ + 1]
      BY <1>9 DEF PVRSRVCreateDeviceMemContextKM
    <3>4. PICK d : d = c
      OBVIOUS
    <3>5. k = [d EXCEPT !.ref = @ + 1] /\ d = [live |-> li, ref |-> re, open |-> op, h |-> ha, lost |-> lo]
      BY <3>1, <3>3, <3>4
    <3> HIDE DEF k, c
    <3>6. k = [live |-> li, ref |-> re + 1, open |-> op, h |-> ha, lost |-> lo]
      BY <3>5
    <3>7. q = [live |-> li, ref |-> re + 1, open |-> op, h |-> ha, lost |-> lo + 1]
      BY <3>6
    <3>8. q.live = li /\ q.ref = re + 1 /\ q.open = op /\ q.lost = lo + 1 /\ q.h = ha
      BY <3>7, Zenon
    <3>9. li \in BOOLEAN /\ re \in Nat /\ op \in Nat /\ ha \in BOOLEAN /\ lo \in Nat
      BY <1>3, <3>2 DEF ContextType
    <3>10. q \in ContextType
      BY <3>7, <3>9 DEF ContextType
    <3> QED BY <1>9, <3>2, <3>8, <3>10
  <2>2. proc' = [proc EXCEPT ![p] = r]
    BY <1>9, Zenon DEF PVRSRVCreateDeviceMemContextBW
  <2> HIDE DEF q
  <2>3. r \in ProcType /\ r.st = "up" /\ r.ctx = q
    BY <1>1, <1>2, <2>1 DEF ProcType
  <2> HIDE DEF r
  <2>4. Fits(Now, p, r)
    BY <1>1, <1>9, <2>1, <2>3 DEF Fits
  <2> QED BY <2>2, <2>3, <2>4
<1> QED BY <1>7, <1>8, <1>9

(* The update of a context, as a record.                                   *)
LEMMA CtxForm ==
  ASSUME NEW s \in States, NEW c \in Procs, NEW k \in ContextType
  PROVE  /\ [s EXCEPT !.proc[c].ctx = k] = WithProc(s, c, [s.proc[c] EXCEPT !.ctx = k])
         /\ [s.proc[c] EXCEPT !.ctx = k] \in ProcType
<1>1. PICK f, a, b, d, e, g : s = [proc |-> f, mem |-> a, sync |-> b, syncTable |-> d,
                                   exports |-> e, kref |-> g]
  BY DEF States
<1>2. c \in DOMAIN f /\ f[c] \in ProcType /\ f[c] = s.proc[c]
  BY <1>1 DEF States
<1>3. [s EXCEPT !.proc[c].ctx = k] =
        [proc |-> [f EXCEPT ![c].ctx = k], mem |-> a, sync |-> b, syncTable |-> d,
                                   exports |-> e, kref |-> g]
  BY <1>1
<1>4. [s.proc[c] EXCEPT !.ctx = k] \in ProcType
  BY <1>2 DEF ProcType
<1> QED BY <1>1, <1>2, <1>3, <1>4 DEF WithProc

(* PVRSRVDestroyDeviceMemContextBW keeps it, with the context destroyed or *)
(* kept by buffers and other opens.                                        *)
LEMMA DestroyContextAction ==
  ASSUME GInv, NEW p \in Procs, PVRSRVDestroyDeviceMemContextBW(p)
  PROVE  GInv' /\ Steady
<1> DEFINE c == proc[p].ctx
           n == Cardinality(BuffersOf(Now, p))
           k == [c EXCEPT !.open = @ - 1, !.h = c.open > 1]
<1>1. /\ proc[p] \in ProcType /\ Fits(Now, p, proc[p])
      /\ c.ref \in Nat /\ c.open \in Nat /\ c.lost \in Nat /\ n \in Nat
  BY ProcFacts
<1>2. proc[p].st = "up" /\ c.h /\ c.live /\ c.open > 0 /\ c.ref > 0 /\ c.ref = c.open + c.lost + n
  <2>1. proc[p].st = "up" /\ c.h
    BY DEF PVRSRVDestroyDeviceMemContextBW, Up
  <2> QED BY <1>1, <2>1 DEF Fits
<1>3. Now \in States /\ Now.proc = proc /\ faults \in 0..load.faults /\ load.faults \in Nat
  BY Unfold
<1>4. /\ k \in ContextType /\ k.live /\ k.ref = c.ref /\ k.open = c.open - 1
      /\ k.lost = c.lost /\ (k.h <=> c.open > 1)
  <2>0. (c.open > 1) \in BOOLEAN
    OBVIOUS
  <2>1. PICK w \in BOOLEAN : w = (c.open > 1)
    BY <2>0, Zenon
  <2>2. c \in ContextType
    BY <1>1 DEF ProcType
  <2>3. PICK o \in Nat : o = c.open - 1
    BY <1>1, <1>2
  <2>4. k = [c EXCEPT !.open = o, !.h = w]
    BY <2>1, <2>3, Zenon
  <2> HIDE DEF k
  <2>5. PICK li, re, op, ha, lo : c = [live |-> li, ref |-> re, open |-> op, h |-> ha, lost |-> lo]
    BY <2>2 DEF ContextType
  <2>6. PICK y : y = [c EXCEPT !.open = o]
    OBVIOUS
  <2>7. y = [live |-> li, ref |-> re, open |-> o, h |-> ha, lost |-> lo]
    BY <2>5, <2>6
  <2>8. [y EXCEPT !.h = w] = [live |-> li, ref |-> re, open |-> o, h |-> w, lost |-> lo]
    BY <2>7
  <2>9. k = [y EXCEPT !.h = w]
    BY <2>4, <2>6, Zenon
  <2>10. k = [live |-> li, ref |-> re, open |-> o, h |-> w, lost |-> lo]
    BY <2>8, <2>9
  <2>11. c.live = li /\ c.ref = re /\ c.lost = lo /\ li \in BOOLEAN /\ re \in Nat /\ lo \in Nat
    BY <2>2, <2>5 DEF ContextType
  <2>12. k \in ContextType
    BY <2>10, <2>11 DEF ContextType
  <2>13. k.live = li /\ k.ref = re /\ k.open = o /\ k.lost = lo /\ k.h = w
    BY <2>10, Zenon
  <2> QED BY <1>2, <2>1, <2>3, <2>11, <2>12, <2>13
<1>5. PICK u : u = [Now EXCEPT !.proc[p].ctx = k]
  OBVIOUS
<1>6. Becomes(pvr_put_ctx(u, p))
  <2>1. Becomes(pvr_put_ctx([Now EXCEPT !.proc[p].ctx = k], p))
    BY DEF PVRSRVDestroyDeviceMemContextBW, PVRSRVDestroyDeviceMemContextKM
  <2> QED BY <1>5, <2>1
<1> HIDE DEF k
<1> DEFINE r == [proc[p] EXCEPT !.ctx = k]
<1>7. u = WithProc(Now, p, r) /\ r \in ProcType
  BY <1>3, <1>4, <1>5, CtxForm
<1>8. r.ctx = k /\ r.st = "up"
  BY <1>1, <1>2 DEF ProcType
<1> HIDE DEF r
<1>9. u \in States
  BY <1>3, <1>7, WithProcType
<1>10. u.proc = [proc EXCEPT ![p] = r] /\ u.proc[p] = r /\ u.mem = mem /\ u.sync = sync
       /\ u.syncTable = syncTable /\ u.exports = exports /\ u.kref = kref
  <2>1. proc \in [Procs -> ProcType]
    BY <1>3 DEF States
  <2> QED BY <1>7, <2>1 DEF WithProc, Now
<1> DEFINE q == IF r.ctx.ref = 1 THEN WithoutContext(r) ELSE WithRef(r, r.ctx.ref - 1)
<1>11. pvr_put_ctx(u, p) = WithProc(u, p, q) /\ q \in ProcType
  <2>1. u.proc[p].ctx.ref > 0
    BY <1>2, <1>4, <1>8, <1>10
  <2> QED BY <1>9, <1>10, <2>1, PutForm
<1>12. Fits(Now, p, q) /\ q.st = "up"
  <2>1. CASE r.ctx.ref = 1
    <3>1. q.ctx = NoContext /\ q.st = "up"
      BY <1>8, <2>1 DEF WithoutContext
    <3>2. NoContext.live = FALSE /\ NoContext.h = FALSE
      BY DEF NoContext
    <3>3. InContext(Now, p) = {}
      <4>1. n = 0
        BY <1>1, <1>2, <1>4, <1>8, <2>1
      <4> QED BY <4>1, BuffersFinite
    <3> HIDE DEF q
    <3> QED BY <3>1, <3>2, <3>3 DEF Fits
  <2>2. CASE r.ctx.ref # 1
    <3>1. /\ q.st = "up" /\ q.ctx.live = k.live /\ q.ctx.ref = c.ref - 1
          /\ q.ctx.open = k.open /\ q.ctx.h = k.h /\ q.ctx.lost = k.lost
      BY <1>4, <1>8, <2>2 DEF WithRef
    <3> HIDE DEF q
    <3>2. c.ref # 1
      BY <1>4, <1>8, <2>2
    <3>3. q.ctx.ref = q.ctx.open + q.ctx.lost + n /\ q.ctx.ref > 0
      BY <1>1, <1>2, <1>4, <3>1, <3>2
    <3>4. q.ctx.h => q.ctx.open > 0
      BY <1>1, <1>4, <3>1
    <3> QED BY <1>4, <3>1, <3>3, <3>4 DEF Fits
  <2> QED BY <2>1, <2>2
<1> HIDE DEF q
<1>13. proc' = [proc EXCEPT ![p] = q] /\ UNCHANGED <<mem, sync, syncTable, exports, kref>>
  <2>1. proc' = [u.proc EXCEPT ![p] = q] /\ mem' = u.mem /\ sync' = u.sync
        /\ syncTable' = u.syncTable /\ exports' = u.exports /\ kref' = u.kref
    BY <1>6, <1>11 DEF Becomes, WithProc
  <2> QED BY <1>10, <2>1
<1>14. ContextExact(WithProc(Now, p, q), p)
  BY <1>3, <1>12, FitsExact
<1>15. chain' = chain /\ load' = load /\ faults' = faults
  BY DEF PVRSRVDestroyDeviceMemContextBW
<1>16. faults' \in 0..load.faults /\ faults' >= faults
  BY <1>3, <1>15
<1> QED BY <1>2, <1>11, <1>12, <1>13, <1>14, <1>15, <1>16, ProcAction

-----------------------------------------------------------------------------
(* PVRSRVMapMemInfoMemBW keeps it: the second handle is made where the     *)
(* first one is.                                                           *)
LEMMA MapMemInfoMemAction ==
  ASSUME GInv, NEW p \in Procs, NEW m \in Mems, PVRSRVMapMemInfoMemBW(p, m)
  PROVE  GInv' /\ Steady
<1>1. /\ Good(Now, chain) /\ Core(Now, chain) /\ (faults = 0 => Owned(Now)) /\ Handles(Now, chain)
      /\ Now \in States /\ Now.mem = mem
      /\ chain \in Procs \cup {Nobody} /\ load \in Loads /\ faults \in 0..load.faults
  BY Unfold
<1>2. mem[m].h /\ chain' = chain /\ load' = load /\ faults' = faults
  BY DEF PVRSRVMapMemInfoMemBW, HasHandle
<1>3. PICK b \in BOOLEAN : b = TRUE
  OBVIOUS
<1>4. PICK t : t = WithMem(Now, [mem EXCEPT ![m] = WithHandles(mem[m], mem[m].h, b)])
  OBVIOUS
<1>5. Becomes(t)
  <2>1. mem \in [Mems -> MemType] /\ mem[m] \in MemType
    BY <1>1 DEF States
  <2>2. mem' = [mem EXCEPT ![m].refh = b]
    BY <1>3, Zenon DEF PVRSRVMapMemInfoMemBW
  <2>3. [mem[m] EXCEPT !.refh = b] = WithHandles(mem[m], mem[m].h, b)
    BY <2>1, RefhForm
  <2>4. mem' = [mem EXCEPT ![m] = WithHandles(mem[m], mem[m].h, b)]
    BY <2>2, <2>3
  <2>5. UNCHANGED <<proc, sync, syncTable, exports, kref>>
    BY DEF PVRSRVMapMemInfoMemBW
  <2> QED BY <1>4, <2>4, <2>5 DEF Becomes, WithMem, Now
<1>6. mem[m].h \in BOOLEAN
  BY <1>1 DEF States, MemType
<1>7. /\ Core(t, chain) /\ (Owned(Now) => Owned(t)) /\ Alike(Now, t)
      /\ t.proc = Now.proc /\ t.mem[m].h = mem[m].h
      /\ \A d \in Mems \ {m} : t.mem[d] = Now.mem[d]
  <2>1. PICK a \in BOOLEAN : a = mem[m].h
    BY <1>6
  <2>2. t = WithMem(Now, [Now.mem EXCEPT ![m] = WithHandles(Now.mem[m], a, b)])
    BY <1>1, <1>4, <2>1
  <2>3. Core(Now, chain) /\ (chain # Nobody => chain \in Procs)
    BY <1>1
  <2> QED BY <2>1, <2>2, <2>3, SetHandles
<1>8. Handles(t, chain)
  <2> SUFFICES ASSUME NEW d \in Mems
               PROVE  /\ t.mem[d].h => /\ Live(t, d) /\ t.proc[t.mem[d].p].st = "up"
                                       /\ t.mem[d].kind = "dc" => chain = t.mem[d].p
                                       /\ t.mem[d].kind = "alloc" => Extra(t, d) = 1
                      /\ t.mem[d].refh /\ t.mem[d].kind # "dc" => t.mem[d].h
    BY DEF Handles
  <2>1. Extra(t, d) = Extra(Now, d)
    BY <1>7, AlikeMaps
  <2>2. Same(t.mem[d], Now.mem[d])
    BY <1>7 DEF Alike
  <2>3. /\ Now.mem[d].h => /\ Live(Now, d) /\ Now.proc[Now.mem[d].p].st = "up"
                           /\ Now.mem[d].kind = "dc" => chain = Now.mem[d].p
                           /\ Now.mem[d].kind = "alloc" => Extra(Now, d) = 1
        /\ Now.mem[d].refh /\ Now.mem[d].kind # "dc" => Now.mem[d].h
    BY <1>1 DEF Handles
  <2>4. t.mem[d].h = Now.mem[d].h
    BY <1>1, <1>7
  <2>5. t.mem[d].refh /\ t.mem[d].kind # "dc" => t.mem[d].h
    BY <1>1, <1>2, <1>7, <2>2, <2>3
  <2> QED BY <1>7, <2>1, <2>2, <2>3, <2>4, <2>5 DEF Same, Live
<1>9. Good(t, chain')
  BY <1>2, <1>7, <1>8 DEF Good
<1>10. faults' = 0 => Owned(t)
  BY <1>1, <1>2, <1>7
<1>11. Steady
  BY DEF Steady, PVRSRVMapMemInfoMemBW
<1> QED BY <1>1, <1>2, <1>5, <1>9, <1>10, <1>11, Settles

(* The record of a memory info that is exported.                           *)
Exported(r) ==
  [st |-> r.st, kind |-> r.kind, p |-> r.p, ctx |-> r.ctx, item |-> r.item, ref |-> r.ref,
   exported |-> TRUE, sync |-> r.sync, src |-> r.src, addr |-> r.addr,
   h |-> r.h, refh |-> r.refh]

WithExport(s, m) ==
  [proc |-> s.proc, mem |-> [s.mem EXCEPT ![m] = Exported(s.mem[m])], sync |-> s.sync,
   syncTable |-> s.syncTable, exports |-> s.exports \cup {m}, kref |-> s.kref]

(* A live memory info that is exported is a good source for mappings.      *)
LEMMA ExportGood ==
  ASSUME NEW s, NEW ch \in Procs \cup {Nobody}, Good(s, ch), NEW m \in Mems, Live(s, m),
         NEW t, t = WithExport(s, m)
  PROVE  Good(t, ch) /\ (Owned(s) => Owned(t))
<1>1. /\ Balanced(s) /\ Rest(s, ch) /\ s \in States /\ s.mem \in [Mems -> MemType] /\ Handles(s, ch)
      /\ s.exports \subseteq Mems
  BY CoreFields DEF Good
<1>2. /\ t.proc = s.proc /\ t.sync = s.sync /\ t.syncTable = s.syncTable /\ t.kref = s.kref
      /\ t.exports = s.exports \cup {m} /\ t.mem = [s.mem EXCEPT ![m] = Exported(s.mem[m])]
  BY DEF WithExport
<1>3. Exported(s.mem[m]) \in MemType
  BY <1>1 DEF Exported, MemType
<1>4. t \in States
  <2>1. [s.mem EXCEPT ![m] = Exported(s.mem[m])] \in [Mems -> MemType]
    BY <1>1, <1>3
  <2> QED BY <1>1, <2>1 DEF States, WithExport
<1>5. t.mem[m] = Exported(s.mem[m]) /\ \A d \in Mems \ {m} : t.mem[d] = s.mem[d]
  BY <1>1, <1>2
<1>6. /\ t.mem[m].st = s.mem[m].st /\ t.mem[m].kind = s.mem[m].kind /\ t.mem[m].p = s.mem[m].p
      /\ t.mem[m].ctx = s.mem[m].ctx /\ t.mem[m].item = s.mem[m].item /\ t.mem[m].ref = s.mem[m].ref
      /\ t.mem[m].sync = s.mem[m].sync /\ t.mem[m].src = s.mem[m].src
      /\ t.mem[m].addr = s.mem[m].addr /\ t.mem[m].h = s.mem[m].h /\ t.mem[m].refh = s.mem[m].refh
      /\ t.mem[m].exported
  <2>1. PICK r : r = s.mem[m]
    OBVIOUS
  <2>2. t.mem[m] = Exported(r)
    BY <1>5, <2>1
  <2>3. Exported(r).exported = TRUE
    BY Zenon DEF Exported
  <2>4. /\ Exported(r).st = r.st /\ Exported(r).kind = r.kind /\ Exported(r).p = r.p
        /\ Exported(r).ctx = r.ctx /\ Exported(r).item = r.item /\ Exported(r).ref = r.ref
        /\ Exported(r).sync = r.sync /\ Exported(r).src = r.src
        /\ Exported(r).addr = r.addr /\ Exported(r).h = r.h /\ Exported(r).refh = r.refh
    BY DEF Exported
  <2> QED BY <2>1, <2>2, <2>3, <2>4
<1>7. \A d \in Mems :
      /\ t.mem[d].st = s.mem[d].st /\ t.mem[d].kind = s.mem[d].kind /\ t.mem[d].p = s.mem[d].p
      /\ t.mem[d].ctx = s.mem[d].ctx /\ t.mem[d].item = s.mem[d].item /\ t.mem[d].ref = s.mem[d].ref
      /\ t.mem[d].sync = s.mem[d].sync /\ t.mem[d].src = s.mem[d].src
      /\ t.mem[d].addr = s.mem[d].addr /\ t.mem[d].h = s.mem[d].h /\ t.mem[d].refh = s.mem[d].refh
      /\ (s.mem[d].exported => t.mem[d].exported) /\ (Live(t, d) <=> Live(s, d))
  BY <1>5, <1>6 DEF Live
<1>8. Balanced(t)
  <2>1. \A d \in Mems : /\ Live(t, d) <=> Live(s, d)
                        /\ t.mem[d].ctx = s.mem[d].ctx /\ t.mem[d].addr = s.mem[d].addr
    BY <1>7
  <2>2. t.proc = s.proc /\ t.kref = s.kref /\ \A y \in Mems \cup {Disp} : t.sync[y].live = s.sync[y].live
    BY <1>2
  <2>3. Balanced(s)
    BY <1>1
  <2> QED BY <1>4, <2>1, <2>2, <2>3, BalancedAlike
<1>9. Shapes(t)
  <2>1. Shapes(s) /\ s \in States
    BY <1>1 DEF Rest
  <2>2. \A p \in Procs : t.proc[p].st = s.proc[p].st
    BY <1>2
  <2>3. \A d \in Mems : /\ t.mem[d].st = s.mem[d].st /\ t.mem[d].kind = s.mem[d].kind
                        /\ t.mem[d].p = s.mem[d].p /\ t.mem[d].ctx = s.mem[d].ctx
                        /\ t.mem[d].sync = s.mem[d].sync /\ t.mem[d].src = s.mem[d].src
                        /\ t.mem[d].addr = s.mem[d].addr
                        /\ s.mem[d].exported => t.mem[d].exported
    BY <1>7
  <2> QED BY <2>1, <2>2, <2>3, ShapesKept
<1>10. \A d \in Mems : Extra(t, d) = Extra(s, d)
  <2>1. \A d : MapsOf(t, d) = MapsOf(s, d)
    BY <1>7 DEF MapsOf
  <2> QED BY <1>7, <2>1 DEF Extra
<1>11. Refs(t)
  <2> SUFFICES ASSUME NEW d \in Mems, Live(t, d) PROVE RefExact(t, d)
    BY DEF Refs
  <2>1. RefExact(s, d)
    BY <1>1, <1>7 DEF Rest, Refs
  <2>2. t.mem[d].kind = s.mem[d].kind /\ t.mem[d].item = s.mem[d].item /\ Extra(t, d) = Extra(s, d)
    BY <1>7, <1>10
  <2> QED BY <2>1, <2>2 DEF RefExact
<1>12. ExportsLive(t)
  <2> SUFFICES ASSUME NEW d \in t.exports
               PROVE  /\ t.mem[d].st # "unused" /\ (t.mem[d].kind = "alloc" => Live(t, d))
                      /\ Live(t, d) => t.mem[d].exported
    BY DEF ExportsLive
  <2>1. CASE d = m
    BY <1>6, <1>7, <2>1 DEF Live
  <2>2. CASE d # m
    <3>1. d \in s.exports /\ d \in Mems
      BY <1>1, <1>2, <2>2
    <3>2. /\ s.mem[d].st # "unused" /\ (s.mem[d].kind = "alloc" => Live(s, d))
          /\ Live(s, d) => s.mem[d].exported
      BY <1>1, <3>1 DEF Rest, ExportsLive
    <3>3. t.mem[d] = s.mem[d]
      BY <1>5, <2>2, <3>1
    <3> QED BY <3>2, <3>3 DEF Live
  <2> QED BY <2>1, <2>2
<1>13. TableExact(t) /\ WrapsShare(t) /\ SyncsLive(t) /\ (Owned(s) => Owned(t))
  <2>1. s \in States /\ Rest(s, ch) /\ t.syncTable = s.syncTable /\ \A y \in Mems : t.sync[y] = s.sync[y]
    BY <1>1, <1>2
  <2>2. \A d \in Mems : /\ t.mem[d].st = s.mem[d].st /\ t.mem[d].kind = s.mem[d].kind
                        /\ t.mem[d].sync = s.mem[d].sync
    BY <1>7
  <2> QED BY <2>1, <2>2, SyncsAlike
<1>14. ChainSync(t, ch)
  BY <1>1, <1>2 DEF Rest, ChainSync
<1>15. Handles(t, ch)
  <2>1. \A d \in Mems :
        /\ t.mem[d].kind = s.mem[d].kind /\ t.mem[d].p = s.mem[d].p
        /\ t.mem[d].h = s.mem[d].h /\ t.mem[d].refh = s.mem[d].refh
        /\ (Live(t, d) <=> Live(s, d)) /\ Extra(t, d) = Extra(s, d)
    BY <1>7, <1>10
  <2> SUFFICES ASSUME NEW d \in Mems
               PROVE  /\ t.mem[d].h => /\ Live(t, d) /\ t.proc[t.mem[d].p].st = "up"
                                       /\ t.mem[d].kind = "dc" => ch = t.mem[d].p
                                       /\ t.mem[d].kind = "alloc" => Extra(t, d) = 1
                      /\ t.mem[d].refh /\ t.mem[d].kind # "dc" => t.mem[d].h
    BY DEF Handles
  <2>2. Handles(s, ch) /\ t.proc = s.proc
    BY <1>1, <1>2
  <2> QED BY <2>1, <2>2 DEF Handles
<1> QED BY <1>8, <1>9, <1>11, <1>12, <1>13, <1>14, <1>15 DEF Good, Core, Rest

(* PVRSRVExportDeviceMemBW keeps the invariant.                            *)
LEMMA ExportAction ==
  ASSUME GInv, NEW p \in Procs, NEW m \in Mems, PVRSRVExportDeviceMemBW(p, m)
  PROVE  GInv' /\ Steady
<1>1. /\ Good(Now, chain) /\ (faults = 0 => Owned(Now)) /\ Now \in States
      /\ chain \in Procs \cup {Nobody} /\ load \in Loads /\ faults \in 0..load.faults
      /\ Now.proc = proc /\ Now.mem = mem /\ Now.sync = sync
      /\ Now.syncTable = syncTable /\ Now.exports = exports /\ Now.kref = kref
  BY Unfold
<1>2. PICK t : t = WithExport(Now, m)
  OBVIOUS
<1>3. Live(Now, m)
  BY <1>1 DEF PVRSRVExportDeviceMemBW, Live
<1>4. Good(t, chain) /\ (Owned(Now) => Owned(t))
  BY <1>1, <1>2, <1>3, ExportGood
<1>5. mem' = [mem EXCEPT ![m] = Exported(mem[m])]
  <2>1. mem \in [Mems -> MemType] /\ mem[m] \in MemType
    BY <1>1 DEF States
  <2>2. PICK b : b = TRUE
    OBVIOUS
  <2>3. mem' = [mem EXCEPT ![m].exported = b]
    BY <2>2, Zenon DEF PVRSRVExportDeviceMemBW
  <2>4. [mem[m] EXCEPT !.exported = b] = Exported(mem[m])
    <3>1. PICK r : r = mem[m]
      OBVIOUS
    <3>2. PICK st, kind, q, ctx, item, ref, ex, sy, src, ad, h, rh :
            r = [st |-> st, kind |-> kind, p |-> q, ctx |-> ctx, item |-> item, ref |-> ref,
                exported |-> ex, sync |-> sy, src |-> src, addr |-> ad, h |-> h, refh |-> rh]
      BY <2>1, <3>1 DEF MemType
    <3>3. [r EXCEPT !.exported = b] =
            [st |-> st, kind |-> kind, p |-> q, ctx |-> ctx, item |-> item, ref |-> ref,
                exported |-> b, sync |-> sy, src |-> src, addr |-> ad, h |-> h, refh |-> rh]
      BY <3>2
    <3>4. Exported(r) =
            [st |-> st, kind |-> kind, p |-> q, ctx |-> ctx, item |-> item, ref |-> ref,
                exported |-> TRUE, sync |-> sy, src |-> src, addr |-> ad, h |-> h, refh |-> rh]
      BY <3>2 DEF Exported
    <3> QED BY <2>2, <3>1, <3>3, <3>4, Zenon
  <2> QED BY <2>3, <2>4
<1>6. /\ UNCHANGED <<proc, sync, syncTable, kref, chain, load, faults>>
      /\ exports' = exports \cup {m}
  BY DEF PVRSRVExportDeviceMemBW
<1>7. Becomes(t)
  BY <1>1, <1>2, <1>5, <1>6 DEF Becomes, WithExport
<1>8. Steady
  BY <1>6 DEF Steady
<1> QED BY <1>1, <1>4, <1>6, <1>7, <1>8, Settles

-----------------------------------------------------------------------------
(* The handles of s are those of t, or fewer, under another swap chain.    *)
LEMMA HandlesAlike ==
  ASSUME NEW s, NEW t, NEW ch, NEW cht, Handles(s, ch), Alike(s, t), Shapes(s),
         \A p \in Procs : s.proc[p].st = "up" => t.proc[p].st = "up",
         \A d \in Mems : /\ t.mem[d].h => s.mem[d].h /\ (s.mem[d].kind = "dc" => cht = s.mem[d].p)
                         /\ t.mem[d].refh /\ s.mem[d].kind # "dc" => t.mem[d].h
  PROVE  Handles(t, cht)
<1> SUFFICES ASSUME NEW d \in Mems
             PROVE  /\ t.mem[d].h => /\ Live(t, d) /\ t.proc[t.mem[d].p].st = "up"
                                     /\ t.mem[d].kind = "dc" => cht = t.mem[d].p
                                     /\ t.mem[d].kind = "alloc" => Extra(t, d) = 1
                    /\ t.mem[d].refh /\ t.mem[d].kind # "dc" => t.mem[d].h
  BY DEF Handles
<1>1. Extra(t, d) = Extra(s, d)
  BY AlikeMaps
<1>2. Same(t.mem[d], s.mem[d])
  BY DEF Alike
<1>3. s.mem[d].h => /\ Live(s, d) /\ s.proc[s.mem[d].p].st = "up"
                    /\ s.mem[d].kind = "alloc" => Extra(s, d) = 1
  BY DEF Handles
<1>4. s.mem[d].h => s.mem[d].p \in Procs
  BY <1>3 DEF Shapes, Shape
<1> QED BY <1>1, <1>2, <1>3, <1>4 DEF Same, Live

(* The swap chain brings the synchronisation info of its buffer.           *)
LEMMA CreateSwapChainAction ==
  ASSUME GInv, NEW p \in Procs, CreateSwapChain(p)
  PROVE  GInv' /\ Steady
<1>1. /\ Balanced(Now) /\ Rest(Now, chain) /\ Handles(Now, chain) /\ Now \in States
      /\ (faults = 0 => Owned(Now)) /\ Now.proc = proc
      /\ chain \in Procs \cup {Nobody} /\ load \in Loads /\ faults \in 0..load.faults
  BY Unfold
<1>2. /\ proc[p].st = "up" /\ chain = Nobody /\ chain' = p /\ load' = load /\ faults' = faults
      /\ Becomes(PVRSRVAllocSyncInfoKM(Now, Disp, Nobody))
  BY DEF CreateSwapChain, Up
<1>3. PICK t, y, a : /\ t = PVRSRVAllocSyncInfoKM(Now, y, a) /\ y = Disp /\ a = Nobody
                     /\ y \in Mems \cup {Disp} /\ a \in Addrs \cup {Nobody}
  <2>1. Disp \in Mems \cup {Disp} /\ Nobody \in Addrs \cup {Nobody}
    OBVIOUS
  <2> QED BY <2>1, Zenon
<1>4. ~Now.sync[y].live
  BY <1>1, <1>2, <1>3 DEF Rest, ChainSync
<1>5. /\ Balanced(t) /\ t.proc = Now.proc /\ t.mem = Now.mem
      /\ t.sync = [Now.sync EXCEPT ![y] = NewSync(a)]
      /\ t.syncTable = Now.syncTable /\ t.exports = Now.exports
  BY <1>1, <1>3, <1>4, AllocSyncBalanced
<1>6. t.sync[Disp].live /\ \A z \in Mems : t.sync[z] = Now.sync[z]
  <2>1. Now.sync \in [Mems \cup {Disp} -> SyncType]
    BY <1>1 DEF States
  <2>2. NewSync(a).live = TRUE
    BY Zenon DEF NewSync
  <2>3. Disp \notin Mems
    BY DEF Disp
  <2> QED BY <1>3, <1>5, <2>1, <2>2, <2>3
<1>7. Alike(Now, t)
  BY <1>5, <1>6 DEF Alike, Same
<1>8. ChainSync(t, p)
  <2>1. p # Nobody
    OBVIOUS
  <2> QED BY <1>1, <1>2, <1>5, <1>6, <2>1 DEF ChainSync
<1>9. Rest(t, p) /\ (Owned(Now) => Owned(t))
  <2>1. \A q \in Procs : Now.proc[q].st # "new" => t.proc[q].st # "new"
    BY <1>5
  <2> QED BY <1>1, <1>7, <1>8, <2>1, RestAlike
<1>10. Handles(t, p)
  <2>1. \A q \in Procs : Now.proc[q].st = "up" => t.proc[q].st = "up"
    BY <1>5
  <2>2. Shapes(Now)
    BY <1>1 DEF Rest
  <2>3. \A d \in Mems : Now.mem[d].h => Now.mem[d].kind # "dc"
    <3> SUFFICES ASSUME NEW d \in Mems, Now.mem[d].h, Now.mem[d].kind = "dc" PROVE FALSE
      OBVIOUS
    <3>1. Live(Now, d) /\ Now.mem[d].p = Nobody
      BY <1>1, <1>2 DEF Handles
    <3>2. Now.mem[d].p \in Procs
      BY <2>2, <3>1 DEF Shapes, Shape
    <3> QED BY <3>1, <3>2
  <2>4. \A d \in Mems : /\ t.mem[d].h => Now.mem[d].h /\ (Now.mem[d].kind = "dc" => p = Now.mem[d].p)
                        /\ t.mem[d].refh /\ Now.mem[d].kind # "dc" => t.mem[d].h
    BY <1>1, <1>5, <2>3 DEF Handles
  <2> QED BY <1>1, <1>7, <2>1, <2>2, <2>4, HandlesAlike
<1>11. Good(t, chain')
  BY <1>2, <1>5, <1>9, <1>10 DEF Good, Core
<1>12. Becomes(t) /\ (faults' = 0 => Owned(t)) /\ chain' \in Procs \cup {Nobody}
  BY <1>1, <1>2, <1>3, <1>9
<1>13. Steady
  BY <1>1, <1>5, <1>12, SteadyBecomes
<1> QED BY <1>1, <1>2, <1>11, <1>12, <1>13, Settles

(* The swap chain goes with its synchronisation info and with the handles  *)
(* to device class memory that hang below its buffer.                      *)
LEMMA DropGood ==
  ASSUME NEW s, NEW p \in Procs, Good(s, p), NEW t, t = DropChain(s, p)
  PROVE  /\ Good(t, Nobody) /\ (Owned(s) => Owned(t)) /\ Alike(s, t) /\ t.proc = s.proc
<1>1. Balanced(s) /\ Rest(s, p) /\ s \in States /\ Handles(s, p) /\ s.mem \in [Mems -> MemType]
      /\ Shapes(s)
  BY CoreFields DEF Good, Rest
<1>2. PICK u, y : u = PVRSRVFreeSyncInfoKM(s, y) /\ y = Disp /\ y \in Mems \cup {Disp}
  <2>1. Disp \in Mems \cup {Disp}
    OBVIOUS
  <2> QED BY <2>1, Zenon
<1>3. p # Nobody
  OBVIOUS
<1>4. s.sync[y].live
  BY <1>1, <1>2, <1>3 DEF Rest, ChainSync
<1>5. /\ Balanced(u) /\ u.proc = s.proc /\ u.mem = s.mem
      /\ u.sync = [s.sync EXCEPT ![y] = NoSyncInfo]
      /\ u.syncTable = s.syncTable /\ u.exports = s.exports
  BY <1>1, <1>2, <1>4, FreeSyncBalanced
<1>6. ~u.sync[Disp].live /\ \A z \in Mems : u.sync[z] = s.sync[z]
  <2>1. s.sync \in [Mems \cup {Disp} -> SyncType]
    BY <1>1 DEF States
  <2>2. NoSyncInfo.live = FALSE
    BY DEF NoSyncInfo
  <2>3. Disp \notin Mems
    BY DEF Disp
  <2> QED BY <1>2, <1>5, <2>1, <2>2, <2>3
<1>7. Alike(s, u)
  BY <1>5, <1>6 DEF Alike, Same
<1>8. ChainSync(u, Nobody)
  BY <1>6 DEF ChainSync
<1>9. Rest(u, Nobody) /\ (Owned(s) => Owned(u))
  <2>1. \A q \in Procs : s.proc[q].st # "new" => u.proc[q].st # "new"
    BY <1>5
  <2> QED BY <1>1, <1>7, <1>8, <2>1, RestAlike
<1>10. PICK f : f = [m \in Mems |-> IF s.mem[m].kind = "dc" /\ s.mem[m].p = p
                                    THEN DropHandles(s.mem[m], FALSE) ELSE s.mem[m]]
  OBVIOUS
<1>11. ASSUME NEW d \in Mems
       PROVE  /\ f[d] \in MemType /\ Same(f[d], s.mem[d]) /\ f[d].ref = s.mem[d].ref
              /\ (f[d].h => s.mem[d].h /\ ~(s.mem[d].kind = "dc" /\ s.mem[d].p = p))
              /\ (s.mem[d].kind # "dc" => f[d] = s.mem[d])
  <2>1. CASE s.mem[d].kind = "dc" /\ s.mem[d].p = p
    <3>1. PICK a \in BOOLEAN : a = FALSE
      OBVIOUS
    <3>2. s.mem[d] \in MemType
      BY <1>1
    <3>3. f[d] = WithHandles(s.mem[d], a, a)
      <4>1. f[d] = DropHandles(s.mem[d], a)
        BY <1>10, <2>1, <3>1, Zenon
      <4> QED BY <3>1, <3>2, <4>1, DropForm, Zenon
    <3>4. PICK r \in MemType : r = s.mem[d]
      BY <3>2
    <3>5. f[d] \in MemType /\ Same(f[d], r) /\ f[d].ref = r.ref /\ f[d].h = a
      BY <3>3, <3>4, HandlesType, HandlesFacts
    <3> QED BY <2>1, <3>1, <3>4, <3>5
  <2>2. CASE ~(s.mem[d].kind = "dc" /\ s.mem[d].p = p)
    <3>1. f[d] = s.mem[d]
      BY <1>10, <2>2, Zenon
    <3> QED BY <1>1, <2>2, <3>1 DEF Same
  <2> QED BY <2>1, <2>2
<1>12. f \in [Mems -> MemType]
  BY <1>10, <1>11
<1>13. t = WithMem(u, f)
  <2>1. u \in States
    BY <1>5 DEF Balanced
  <2>2. t = [u EXCEPT !.mem = f]
    BY <1>2, <1>10, Zenon DEF DropChain
  <2> QED BY <2>1, <2>2 DEF States, WithMem
<1>14. PICK n : n = Nobody
  OBVIOUS
<1>15. Core(u, n)
  BY <1>5, <1>9, <1>14 DEF Core
<1>16. \A d \in Mems : Same(f[d], u.mem[d]) /\ f[d].ref = u.mem[d].ref
  BY <1>5, <1>11
<1>17. /\ Core(t, n) /\ (Owned(u) => Owned(t)) /\ Alike(u, t)
       /\ t.proc = u.proc /\ t.mem = f /\ t.sync = u.sync
  BY <1>12, <1>13, <1>14, <1>15, <1>16, HandlesOnly
<1>18. Alike(s, t)
  BY <1>5, <1>7, <1>17 DEF Alike
<1>19. Handles(t, n)
  <2>1. \A q \in Procs : s.proc[q].st = "up" => t.proc[q].st = "up"
    BY <1>5, <1>17
  <2>2. \A d \in Mems : /\ t.mem[d].h => s.mem[d].h /\ (s.mem[d].kind = "dc" => n = s.mem[d].p)
                        /\ t.mem[d].refh /\ s.mem[d].kind # "dc" => t.mem[d].h
    BY <1>1, <1>11, <1>17 DEF Handles
  <2> QED BY <1>1, <1>18, <2>1, <2>2, HandlesAlike
<1> QED BY <1>5, <1>9, <1>14, <1>17, <1>18, <1>19 DEF Good

(* Destroying the swap chain keeps the invariant.                          *)
LEMMA DestroySwapChainAction ==
  ASSUME GInv, NEW p \in Procs, DestroySwapChain(p)
  PROVE  GInv' /\ Steady
<1>1. /\ Good(Now, chain) /\ (faults = 0 => Owned(Now)) /\ Now.proc = proc
      /\ load \in Loads /\ faults \in 0..load.faults
  BY Unfold
<1>2. /\ chain = p /\ chain' = Nobody /\ load' = load /\ faults' = faults
      /\ Becomes(DropChain(Now, p))
  BY DEF DestroySwapChain
<1>3. PICK t : t = DropChain(Now, p)
  OBVIOUS
<1>4. Good(t, Nobody) /\ (Owned(Now) => Owned(t)) /\ t.proc = Now.proc
  BY <1>1, <1>2, <1>3, DropGood
<1>5. chain' \in Procs \cup {Nobody} /\ Becomes(t) /\ Good(t, chain')
  BY <1>2, <1>3, <1>4
<1>6. Steady
  BY <1>1, <1>4, <1>5, SteadyBecomes
<1> QED BY <1>1, <1>2, <1>4, <1>5, <1>6, Settles

-----------------------------------------------------------------------------
(* A memory info that was unused comes into being.                         *)
LEMMA UnusedFacts ==
  /\ Unused \in MemType /\ Unused.st = "unused" /\ Unused.kind = "alloc" /\ Unused.ctx = Nobody
  /\ Unused.ref = 0 /\ Unused.sync = NoSync /\ Unused.src = NoMem /\ Unused.addr = Nobody
  /\ Unused.p = Nobody /\ ~Unused.exported /\ ~Unused.h /\ ~Unused.refh /\ ~Unused.item
BY DEF Unused, MemType, Kinds, Contexts

(* Nobody maps a memory info that was unused.                              *)
LEMMA NewMaps ==
  ASSUME NEW s \in States, NEW t, NEW ch, Rest(s, ch), NEW m \in Mems, s.mem[m].st = "unused",
         \A d \in Mems \ {m} : Same(t.mem[d], s.mem[d]),
         t.mem[m].kind = "map" => t.mem[m].src # m
  PROVE  MapsOf(t, m) = {} /\ MapsOf(s, m) = {}
         /\ (t.mem[m].ref \in Nat => Extra(t, m) = t.mem[m].ref)
<1>1. ASSUME NEW d \in Mems, Live(s, d), s.mem[d].kind = "map" PROVE s.mem[d].src # m
  BY <1>1 DEF Rest, Shapes, Shape
<1>2. MapsOf(s, m) = {}
  BY <1>1 DEF MapsOf
<1>3. ASSUME NEW d \in Mems, Live(t, d), t.mem[d].kind = "map" PROVE t.mem[d].src # m
  <2>1. CASE d = m
    BY <1>3, <2>1
  <2>2. CASE d # m
    <3>1. Same(t.mem[d], s.mem[d])
      BY <2>2
    <3> QED BY <1>1, <1>3, <3>1 DEF Same, Live
  <2> QED BY <2>1, <2>2
<1>4. MapsOf(t, m) = {}
  BY <1>3 DEF MapsOf
<1>5. ASSUME t.mem[m].ref \in Nat PROVE Extra(t, m) = t.mem[m].ref
  <2>1. Cardinality(MapsOf(t, m)) = 0
    BY <1>4, FS_EmptySet
  <2> QED BY <1>5, <2>1 DEF Extra
<1> QED BY <1>2, <1>4, <1>5

(* A new memory info of the right shape leaves those of the others right.  *)
LEMMA NewRest ==
  ASSUME NEW s \in States, NEW t \in States, NEW ch, Rest(s, ch), Framed(s, t),
         NEW m \in Mems, s.mem[m].st = "unused", Others(s, t, m), t.mem[m].st # "unused",
         Live(t, m) => Shape(t, m) /\ RefExact(t, m), t.exports = s.exports
  PROVE  Shapes(t) /\ Refs(t) /\ ExportsLive(t)
<1>1. \A d \in Mems \ {m} : /\ Same(t.mem[d], s.mem[d]) /\ (Live(t, d) <=> Live(s, d))
                            /\ (Live(s, d) => Extra(t, d) = Extra(s, d))
  BY DEF Others, Same, Live
<1>2. \A p \in Procs : t.proc[p].st = s.proc[p].st
  BY DEF Framed
<1>3. Shapes(t)
  <2> SUFFICES ASSUME NEW d \in Mems, Live(t, d) PROVE Shape(t, d)
    BY DEF Shapes
  <2>1. CASE d = m
    BY <2>1
  <2>2. CASE d # m
    <3>1. Same(t.mem[d], s.mem[d]) /\ Live(s, d) /\ Shape(s, d)
      BY <1>1, <2>2 DEF Rest, Shapes
    <3>2. s.mem[d].p \in Procs /\ t.proc[s.mem[d].p].st # "new"
      BY <1>2, <3>1 DEF Shape
    <3>3. CASE s.mem[d].kind # "map"
      BY <3>1, <3>2, <3>3 DEF Shape, Same
    <3>4. CASE s.mem[d].kind = "map"
      <4>1. PICK x \in Mems \ {d} : s.mem[d].src = x
        BY <3>1, <3>4 DEF Shape
      <4>2. s.mem[x].st # "unused"
        BY <3>1, <3>4, <4>1 DEF Shape
      <4>3. Same(t.mem[x], s.mem[x]) /\ (Live(t, x) <=> Live(s, x))
        BY <1>1, <4>2
      <4>4. /\ t.mem[x].st = s.mem[x].st /\ t.mem[x].kind = s.mem[x].kind
            /\ t.mem[x].exported = s.mem[x].exported /\ t.mem[x].sync = s.mem[x].sync
        BY <4>3 DEF Same
      <4>5. /\ t.mem[d].kind = s.mem[d].kind /\ t.mem[d].p = s.mem[d].p
            /\ t.mem[d].ctx = s.mem[d].ctx /\ t.mem[d].addr = s.mem[d].addr
            /\ t.mem[d].sync = s.mem[d].sync /\ t.mem[d].src = x
        BY <3>1, <4>1 DEF Same
      <4> QED BY <3>1, <3>2, <3>4, <4>1, <4>2, <4>3, <4>4, <4>5 DEF Shape
    <3> QED BY <3>3, <3>4
  <2> QED BY <2>1, <2>2
<1>4. Refs(t)
  <2> SUFFICES ASSUME NEW d \in Mems, Live(t, d) PROVE RefExact(t, d)
    BY DEF Refs
  <2>1. CASE d = m
    BY <2>1
  <2>2. CASE d # m
    <3>1. Same(t.mem[d], s.mem[d]) /\ Live(s, d) /\ RefExact(s, d) /\ Extra(t, d) = Extra(s, d)
      BY <1>1, <2>2 DEF Rest, Refs
    <3> QED BY <3>1 DEF RefExact, Same
  <2> QED BY <2>1, <2>2
<1>5. ExportsLive(t)
  <2> SUFFICES ASSUME NEW d \in s.exports
               PROVE  /\ t.mem[d].st # "unused" /\ (t.mem[d].kind = "alloc" => Live(t, d))
                      /\ Live(t, d) => t.mem[d].exported
    BY DEF ExportsLive
  <2>1. /\ s.mem[d].st # "unused" /\ (s.mem[d].kind = "alloc" => Live(s, d))
        /\ Live(s, d) => s.mem[d].exported
    BY DEF Rest, ExportsLive
  <2>2. d \in Mems \ {m}
    BY <2>1 DEF States
  <2>3. Same(t.mem[d], s.mem[d])
    BY <1>1, <2>2
  <2> QED BY <2>1, <2>3 DEF Same, Live
<1> QED BY <1>3, <1>4, <1>5

(* A memory info that is no wrap comes into being, or comes and goes.      *)
LEMMA NewCore ==
  ASSUME NEW s, NEW ch \in Procs \cup {Nobody}, Core(s, ch), NEW m \in Mems, s.mem[m].st = "unused",
         NEW t, Balanced(t), Framed(s, t), Others(s, t, m), t.exports = s.exports,
         t.syncTable = s.syncTable, t.mem[m].st # "unused", Live(t, m) => t.mem[m].kind # "wrap",
         \A y \in (Mems \cup {Disp}) \ {m} : t.sync[y] = s.sync[y],
         Live(t, m) => /\ Shape(t, m) /\ RefExact(t, m)
                       /\ t.mem[m].kind = "alloc" /\ t.mem[m].sync = m => t.sync[m].live
  PROVE  /\ Core(t, ch)
         /\ Owned(s) /\ (t.sync[m].live => /\ Live(t, m) /\ t.mem[m].kind = "alloc"
                                           /\ t.mem[m].sync = m) => Owned(t)
<1>1. Rest(s, ch) /\ s \in States /\ t \in States
  BY CoreFields DEF Balanced
<1>2. Shapes(t) /\ Refs(t) /\ ExportsLive(t)
  BY <1>1, NewRest
<1>3. /\ NotWrap(s, m) /\ NotWrap(t, m) /\ \A p \in Procs : t.proc[p].st = s.proc[p].st
  BY DEF NotWrap, Live, Framed
<1>4. \A a \in Addrs : s.syncTable[a] # m
  BY <1>1, NotInTable DEF Rest
<1>5. Live(t, m) /\ t.mem[m].kind = "alloc" /\ t.mem[m].sync = m => t.sync[m].live
  OBVIOUS
<1>6. /\ TableExact(t) /\ WrapsShare(t) /\ SyncsLive(t) /\ ChainSync(t, ch)
      /\ Owned(s) /\ (t.sync[m].live => /\ Live(t, m) /\ t.mem[m].kind = "alloc"
                                        /\ t.mem[m].sync = m) => Owned(t)
  BY <1>1, <1>3, <1>4, <1>5, SyncsKept
<1> QED BY <1>2, <1>6 DEF Core, Rest

(* Its handle is made, or is not.                                          *)
Handled(v, m, b) == [v EXCEPT !.mem[m].h = b]

(* It gets its handle, or it gets none because the call failed.            *)
LEMMA NewHandle ==
  ASSUME NEW v, NEW ch \in Procs \cup {Nobody}, Core(v, ch), NEW m \in Mems, NEW b,
         b \in BOOLEAN, NEW t, t = Handled(v, m, b)
  PROVE  /\ Core(t, ch) /\ (Owned(v) => Owned(t)) /\ Alike(v, t)
         /\ t.proc = v.proc /\ t.mem[m].h = b /\ t.mem[m].refh = v.mem[m].refh
         /\ \A d \in Mems \ {m} : t.mem[d] = v.mem[d]
<1>1. v \in States /\ v.mem \in [Mems -> MemType]
  BY CoreFields
<1>2. PICK a \in BOOLEAN : a = v.mem[m].refh
  BY <1>1 DEF MemType
<1>3. t = WithMem(v, [v.mem EXCEPT ![m] = WithHandles(v.mem[m], b, a)])
  BY <1>1, <1>2, MemHForm DEF Handled
<1>4. ch # Nobody => ch \in Procs
  OBVIOUS
<1>5. PICK x : x = t
  OBVIOUS
<1>6. x = WithMem(v, [v.mem EXCEPT ![m] = WithHandles(v.mem[m], b, a)])
  BY <1>3, <1>5
<1>7. /\ Core(x, ch) /\ (Owned(v) => Owned(x)) /\ Alike(v, x)
      /\ x.proc = v.proc /\ x.sync = v.sync
      /\ x.mem[m].h = b /\ x.mem[m].refh = a
      /\ \A d \in Mems \ {m} : x.mem[d] = v.mem[d]
  BY <1>4, <1>6, SetHandles
<1> QED BY <1>2, <1>5, <1>7

(* A new memory info whose handle, if it has one, may exist makes a good   *)
(* state.                                                                  *)
LEMMA NewDone ==
  ASSUME NEW s, NEW ch \in Procs \cup {Nobody}, Good(s, ch), NEW m \in Mems,
         NEW v, Core(v, ch), Framed(s, v), Others(s, v, m), ~v.mem[m].refh,
         NEW t, Core(t, ch), Alike(v, t), t.proc = v.proc, t.mem[m].refh = v.mem[m].refh,
         \A d \in Mems \ {m} : t.mem[d] = v.mem[d],
         t.mem[m].h => /\ Live(v, m) /\ s.proc[v.mem[m].p].st = "up"
                       /\ v.mem[m].kind = "dc" => ch = v.mem[m].p
                       /\ v.mem[m].kind = "alloc" => Extra(v, m) = 1
  PROVE  Good(t, ch)
<1>1. Handles(s, ch) /\ Shapes(s) /\ Shapes(v)
  BY DEF Good, Core, Rest
<1>5. Handles(t, ch)
  <2> SUFFICES ASSUME NEW d \in Mems
               PROVE  /\ t.mem[d].h => /\ Live(t, d) /\ t.proc[t.mem[d].p].st = "up"
                                       /\ t.mem[d].kind = "dc" => ch = t.mem[d].p
                                       /\ t.mem[d].kind = "alloc" => Extra(t, d) = 1
                      /\ t.mem[d].refh /\ t.mem[d].kind # "dc" => t.mem[d].h
    BY DEF Handles
  <2>1. Same(t.mem[d], v.mem[d]) /\ Extra(t, d) = Extra(v, d)
    BY AlikeMaps DEF Alike
  <2>2. \A q \in Procs : t.proc[q].st = s.proc[q].st
    BY DEF Framed
  <2>3. CASE d = m
    <3>1. ~t.mem[m].refh
      OBVIOUS
    <3>2. t.mem[m].h => t.proc[v.mem[m].p].st = "up"
      BY <1>1, <2>2 DEF Shapes, Shape
    <3> QED BY <2>1, <2>3, <3>1, <3>2 DEF Same, Live
  <2>4. CASE d # m
    <3>1. /\ Same(v.mem[d], s.mem[d]) /\ v.mem[d].h = s.mem[d].h /\ v.mem[d].refh = s.mem[d].refh
          /\ Live(s, d) => Extra(v, d) = Extra(s, d)
      BY <2>4 DEF Others
    <3>2. t.mem[d] = v.mem[d]
      BY <2>4
    <3>3. /\ s.mem[d].h => /\ Live(s, d) /\ s.proc[s.mem[d].p].st = "up"
                           /\ s.mem[d].kind = "dc" => ch = s.mem[d].p
                           /\ s.mem[d].kind = "alloc" => Extra(s, d) = 1
          /\ s.mem[d].refh /\ s.mem[d].kind # "dc" => s.mem[d].h
      BY <1>1 DEF Handles
    <3>4. Live(s, d) => s.mem[d].p \in Procs
      BY <1>1 DEF Shapes, Shape
    <3>5. /\ t.mem[d].st = s.mem[d].st /\ t.mem[d].kind = s.mem[d].kind /\ t.mem[d].p = s.mem[d].p
          /\ t.mem[d].h = s.mem[d].h /\ t.mem[d].refh = s.mem[d].refh
      BY <3>1, <3>2 DEF Same
    <3>6. Live(s, d) => Live(t, d) /\ Extra(t, d) = Extra(s, d)
      BY <2>1, <3>1, <3>5 DEF Live
    <3> QED BY <2>2, <3>3, <3>4, <3>5, <3>6
  <2> QED BY <2>3, <2>4
<1> QED BY <1>5 DEF Good

(* A new memory info that is no mapping changes no count of another one.   *)
LEMMA OthersNew ==
  ASSUME NEW s, NEW t, NEW m \in Mems, \A d \in Mems \ {m} : t.mem[d] = s.mem[d],
         ~Live(s, m), Live(t, m) => t.mem[m].kind # "map"
  PROVE  Others(s, t, m)
<1>1. \A d \in Mems \ {m} : Same(t.mem[d], s.mem[d])
  BY DEF Same
<1>2. \A d \in Mems \ {m} : Extra(t, d) = Extra(s, d)
  <2> TAKE d \in Mems \ {m}
  <2>1. MapsOf(t, d) = MapsOf(s, d)
    BY <1>1, MapsKept
  <2> QED BY <2>1 DEF Extra
<1> QED BY <1>1, <1>2 DEF Others

(* PVRSRVAllocSharedSysMemoryKM: memory that is in no context.             *)
LEMMA SysGood ==
  ASSUME NEW s, NEW ch \in Procs \cup {Nobody}, Good(s, ch), NEW p \in Procs, s.proc[p].st = "up",
         NEW m \in Mems, s.mem[m].st = "unused", NEW f,
         NEW v, v = PVRSRVAllocSharedSysMemoryKM(s, p, m, f)
  PROVE  /\ Core(v, ch) /\ (Owned(s) => Owned(v)) /\ Framed(s, v) /\ Others(s, v, m)
         /\ Live(v, m) /\ v.mem[m].p = p /\ v.mem[m].kind = "sys" /\ ~v.mem[m].refh
<1>1. /\ Core(s, ch) /\ Balanced(s) /\ Rest(s, ch) /\ s \in States /\ s.mem \in [Mems -> MemType]
  BY CoreFields DEF Good
<1>2. PICK new : new = [Unused EXCEPT !.st = "live", !.kind = "sys", !.p = p, !.item = f # "res"]
  OBVIOUS
<1>3. /\ new \in MemType /\ new.st = "live" /\ new.kind = "sys" /\ new.p = p /\ new.ctx = Nobody
      /\ new.sync = NoSync /\ new.ref = 0 /\ ~new.refh
  <2>1. PICK i \in BOOLEAN : i = (f # "res")
    OBVIOUS
  <2>2. new = [Unused EXCEPT !.st = "live", !.kind = "sys", !.p = p, !.item = i]
    BY <1>2, <2>1, Zenon
  <2>3. new \in MemType
    BY <2>2, UnusedFacts DEF MemType, Kinds
  <2> QED BY <2>2, <2>3, UnusedFacts DEF MemType
<1>4. v = WithMem(s, [s.mem EXCEPT ![m] = new])
  <2>1. v = [s EXCEPT !.mem[m] = new]
    BY <1>2, Zenon DEF PVRSRVAllocSharedSysMemoryKM
  <2> QED BY <1>1, <2>1, MemForm
<1>5. /\ v.proc = s.proc /\ v.sync = s.sync /\ v.syncTable = s.syncTable /\ v.kref = s.kref
      /\ v.exports = s.exports /\ v.mem = [s.mem EXCEPT ![m] = new]
  BY <1>4 DEF WithMem
<1>6. v \in States
  <2>1. [s.mem EXCEPT ![m] = new] \in [Mems -> MemType]
    BY <1>1, <1>3
  <2> QED BY <1>1, <1>4, <2>1, WithTypes
<1>7. v.mem[m] = new /\ \A d \in Mems \ {m} : v.mem[d] = s.mem[d]
  BY <1>1, <1>5
<1>8. ~Live(s, m) /\ Live(v, m) /\ Beside(s, v, m)
  BY <1>3, <1>7 DEF Live, Beside
<1>9. Balanced(v)
  BY <1>1, <1>3, <1>5, <1>6, <1>7, <1>8, BalancedBeside
<1>10. Others(s, v, m) /\ Framed(s, v)
  BY <1>3, <1>5, <1>7, <1>8, OthersNew DEF Framed
<1>11. Shape(v, m)
  BY <1>3, <1>5, <1>7 DEF Shape
<1>12. RefExact(v, m)
  <2>1. Extra(v, m) = 0
    <3>1. \A d \in Mems \ {m} : Same(v.mem[d], s.mem[d])
      BY <1>7 DEF Same
    <3>2. v.mem[m].kind # "map" /\ v.mem[m].ref = 0
      BY <1>3, <1>7
    <3>3. s \in States /\ Rest(s, ch)
      BY <1>1
    <3>4. v.mem[m].kind = "map" => v.mem[m].src # m
      BY <3>2
    <3>5. v.mem[m].ref \in Nat => Extra(v, m) = v.mem[m].ref
      BY <3>1, <3>3, <3>4, NewMaps
    <3> QED BY <3>2, <3>5
  <2> QED BY <1>3, <1>7, <2>1 DEF RefExact
<1>13. ~v.sync[m].live
  BY <1>1, <1>5 DEF Rest, SyncsLive
<1>14. /\ v.mem[m].st # "unused" /\ v.mem[m].kind # "wrap"
       /\ \A y \in (Mems \cup {Disp}) \ {m} : v.sync[y] = s.sync[y]
       /\ v.mem[m].kind # "alloc"
  BY <1>3, <1>5, <1>7
<1>15. /\ Core(v, ch)
       /\ Owned(s) /\ (v.sync[m].live => /\ Live(v, m) /\ v.mem[m].kind = "alloc"
                                         /\ v.mem[m].sync = m) => Owned(v)
  BY <1>1, <1>5, <1>9, <1>10, <1>11, <1>12, <1>14, NewCore
<1> QED BY <1>3, <1>7, <1>8, <1>10, <1>13, <1>15

(* The step that leaves a new memory info behind.                          *)
LEMMA NewLands ==
  ASSUME GInv, NEW m \in Mems, NEW v, Core(v, chain), Framed(Now, v), Others(Now, v, m),
         ~v.mem[m].refh, NEW b, b \in BOOLEAN,
         b => /\ Live(v, m) /\ Now.proc[v.mem[m].p].st = "up"
              /\ v.mem[m].kind = "dc" => chain = v.mem[m].p
              /\ v.mem[m].kind = "alloc" => Extra(v, m) = 1,
         Becomes(Handled(v, m, b)), NEW f, Meets(f), faults' = 0 => Owned(v), chain' = chain
  PROVE  GInv' /\ Steady
<1>1. Good(Now, chain) /\ chain \in Procs \cup {Nobody} /\ load \in Loads /\ Now.proc = proc
  BY Unfold
<1>2. PICK t : t = Handled(v, m, b)
  OBVIOUS
<1>3. Becomes(t)
  BY <1>2
<1>4. /\ Core(t, chain) /\ (Owned(v) => Owned(t)) /\ Alike(v, t)
      /\ t.proc = v.proc /\ t.mem[m].h = b /\ t.mem[m].refh = v.mem[m].refh
      /\ \A d \in Mems \ {m} : t.mem[d] = v.mem[d]
  BY <1>1, <1>2, NewHandle
<1>5. Good(t, chain)
  BY <1>1, <1>4, NewDone
<1>6. load' = load /\ faults' \in 0..load.faults
  BY MeetsFacts
<1>7. faults' = 0 => Owned(t)
  BY <1>4
<1>8. Steady
  <2>1. \A q \in Procs : t.proc[q].st = proc[q].st
    BY <1>1, <1>4 DEF Framed
  <2> QED BY <1>3, <2>1, SteadyBecomes
<1> QED BY <1>1, <1>3, <1>5, <1>6, <1>7, <1>8, Settles

(* PVRSRVAllocSharedSysMemoryBW keeps the invariant.                       *)
LEMMA SysAction ==
  ASSUME GInv, NEW p \in Procs, NEW m \in Mems, NEW f, PVRSRVAllocSharedSysMemoryBW(p, m, f)
  PROVE  GInv' /\ Steady
<1>1. /\ Good(Now, chain) /\ (faults = 0 => Owned(Now)) /\ Now.mem = mem /\ Now.proc = proc
      /\ chain \in Procs \cup {Nobody}
  BY Unfold
<1>2. PICK v : v = PVRSRVAllocSharedSysMemoryKM(Now, p, m, f)
  OBVIOUS
<1>3. Now.proc[p].st = "up" /\ Now.mem[m].st = "unused"
  BY <1>1 DEF PVRSRVAllocSharedSysMemoryBW, Fresh, Up
<1>4. /\ Core(v, chain) /\ (Owned(Now) => Owned(v)) /\ Framed(Now, v) /\ Others(Now, v, m)
      /\ Live(v, m) /\ v.mem[m].p = p /\ v.mem[m].kind = "sys" /\ ~v.mem[m].refh
  BY <1>1, <1>2, <1>3, SysGood
<1>5. PICK b \in BOOLEAN : b = (f # "commit")
  OBVIOUS
<1>6. Becomes(Handled(v, m, b))
  BY <1>2, <1>5, Zenon DEF PVRSRVAllocSharedSysMemoryBW, Handled
<1>7. Meets(f) /\ chain' = chain
  BY DEF PVRSRVAllocSharedSysMemoryBW
<1>8. faults' = 0 => Owned(v)
  BY <1>1, <1>4, <1>7, MeetsFacts
<1>9. b => /\ Live(v, m) /\ Now.proc[v.mem[m].p].st = "up"
           /\ v.mem[m].kind = "dc" => chain = v.mem[m].p
           /\ v.mem[m].kind = "alloc" => Extra(v, m) = 1
  BY <1>3, <1>4
<1> QED BY <1>4, <1>6, <1>7, <1>8, <1>9, NewLands

(* PVRSRVAllocDeviceMemKM, also where it fails after the synchronisation   *)
(* info was made: then that info is left without an owner.                 *)
LEMMA AllocGood ==
  ASSUME NEW s, NEW ch \in Procs \cup {Nobody}, Good(s, ch), NEW p \in Procs, s.proc[p].st = "up",
         NEW m \in Mems, s.mem[m].st = "unused", NEW r \in Requests, NEW f,
         HeapContext(p, r.heap) # Kernel => s.proc[HeapContext(p, r.heap)].ctx.live,
         NEW v, v = PVRSRVAllocDeviceMemKM(s, p, m, r, f)
  PROVE  /\ Core(v, ch) /\ (f # "res" => (Owned(s) => Owned(v))) /\ Framed(s, v) /\ Others(s, v, m)
         /\ ~v.mem[m].refh /\ v.mem[m].p = p /\ v.mem[m].kind = "alloc"
         /\ f # "res" => Live(v, m) /\ Extra(v, m) = 1
<1>1. /\ Core(s, ch) /\ Balanced(s) /\ Rest(s, ch) /\ s \in States /\ s.mem \in [Mems -> MemType]
  BY CoreFields DEF Good
<1>2. PICK c : c = HeapContext(p, r.heap)
  OBVIOUS
<1>3. c \in {p, Kernel} /\ c \in Contexts /\ (c # Kernel => s.proc[c].ctx.live)
  BY <1>2 DEF HeapContext, Contexts
<1>4. r.sync \in BOOLEAN /\ r.resman \in BOOLEAN
  BY RequestsAssumption
<1>5. PICK y : y = IF r.sync THEN m ELSE NoSync
  OBVIOUS
<1>6. PICK new : new = [Unused EXCEPT !.st = "live", !.p = p, !.ctx = c, !.sync = y,
                                      !.item = r.resman, !.ref = 1]
  OBVIOUS
<1>7. new \in MemType
  BY <1>3, <1>4, <1>5, <1>6, UnusedFacts DEF MemType
<1>8. /\ new.st = "live" /\ new.kind = "alloc" /\ new.p = p /\ new.ctx = c
      /\ new.sync = y /\ new.ref = 1 /\ ~new.refh /\ new.addr = Nobody
  BY <1>6, UnusedFacts DEF MemType
<1>9. PICK w : w = AllocDeviceMem(s, m, new)
  OBVIOUS
<1>10. w = BM_Wrap(s, m, new)
  BY <1>1, <1>7, <1>8, <1>9, AllocForm
<1>11. ~Live(s, m)
  BY DEF Live
<1>12. /\ Balanced(w) /\ Framed(s, w)
       /\ w.mem = [s.mem EXCEPT ![m] = new] /\ w.sync = s.sync
       /\ w.syncTable = s.syncTable /\ w.exports = s.exports
  <2>1. Balanced(s)
    BY <1>1
  <2>2. new.ctx \in Contexts /\ (new.ctx # Kernel => s.proc[new.ctx].ctx.live)
    BY <1>3, <1>8
  <2> QED BY <1>7, <1>8, <1>10, <1>11, <2>1, <2>2, WrapBalanced
<1>13. PICK u : u = IF r.sync THEN PVRSRVAllocSyncInfoKM(w, m, Nobody) ELSE w
  OBVIOUS
<1>14. ~s.sync[m].live
  BY <1>1 DEF Rest, SyncsLive
<1>15. /\ Balanced(u) /\ u.proc = w.proc /\ u.mem = w.mem
       /\ u.syncTable = w.syncTable /\ u.exports = w.exports
       /\ (\A x \in (Mems \cup {Disp}) \ {m} : u.sync[x] = s.sync[x])
       /\ (u.sync[m].live <=> r.sync)
  <2>1. CASE ~r.sync
    <3>1. u = w
      BY <1>13, <2>1
    <3>2. ~u.sync[m].live /\ (\A x \in (Mems \cup {Disp}) \ {m} : u.sync[x] = s.sync[x])
      BY <1>12, <1>14, <3>1
    <3> QED BY <1>12, <2>1, <3>1, <3>2
  <2>2. CASE r.sync
    <3>1. PICK k \in Addrs \cup {Nobody} : k = Nobody
      OBVIOUS
    <3>2. u = PVRSRVAllocSyncInfoKM(w, m, k)
      BY <1>13, <2>2, <3>1
    <3>3. Balanced(w) /\ ~w.sync[m].live /\ w.sync \in [Mems \cup {Disp} -> SyncType]
      BY <1>12, <1>14 DEF Balanced, States
    <3>4. /\ Balanced(u) /\ u.proc = w.proc /\ u.mem = w.mem
          /\ u.sync = [w.sync EXCEPT ![m] = NewSync(k)]
          /\ u.syncTable = w.syncTable /\ u.exports = w.exports
      BY <3>2, <3>3, AllocSyncBalanced
    <3>5. u.sync[m].live
      BY <3>3, <3>4 DEF NewSync
    <3>6. \A x \in (Mems \cup {Disp}) \ {m} : u.sync[x] = s.sync[x]
      BY <1>12, <3>3, <3>4
    <3> QED BY <2>2, <3>4, <3>5, <3>6
  <2> QED BY <2>1, <2>2
<1>16. u.mem[m] = new /\ (\A d \in Mems \ {m} : u.mem[d] = s.mem[d]) /\ Live(u, m)
  BY <1>1, <1>8, <1>12, <1>15 DEF Live
<1>17. Framed(s, u)
  BY <1>12, <1>15 DEF Framed
<1>18. v = IF f = "res" THEN FreeDeviceMem(u, m) ELSE u
  BY <1>2, <1>5, <1>6, <1>9, <1>13, Zenon DEF PVRSRVAllocDeviceMemKM
<1>19. CASE f # "res"
  <2>1. v = u
    BY <1>18, <1>19
  <2>2. Others(s, u, m)
    BY <1>8, <1>11, <1>16, OthersNew
  <2>3. Extra(u, m) = 1
    <3>1. \A d \in Mems \ {m} : Same(u.mem[d], s.mem[d])
      BY <1>16 DEF Same
    <3>2. u.mem[m].kind # "map" /\ u.mem[m].ref = 1
      BY <1>8, <1>16
    <3>3. s \in States /\ Rest(s, ch)
      BY <1>1
    <3>4. u.mem[m].kind = "map" => u.mem[m].src # m
      BY <3>2
    <3>5. u.mem[m].ref \in Nat => Extra(u, m) = u.mem[m].ref
      BY <3>1, <3>3, <3>4, NewMaps
    <3> QED BY <3>2, <3>5
  <2>4. Shape(u, m) /\ RefExact(u, m)
    <3>1. u.proc[p].st # "new"
      BY <1>17 DEF Framed
    <3> QED BY <1>3, <1>5, <1>8, <1>16, <2>3, <3>1 DEF Shape, RefExact
  <2>5. /\ Balanced(u) /\ u.exports = s.exports /\ u.syncTable = s.syncTable
        /\ u.mem[m].st # "unused" /\ u.mem[m].kind # "wrap"
        /\ (\A x \in (Mems \cup {Disp}) \ {m} : u.sync[x] = s.sync[x])
    BY <1>8, <1>12, <1>15, <1>16
  <2>6. u.mem[m].kind = "alloc" /\ u.mem[m].sync = m => u.sync[m].live
    BY <1>5, <1>8, <1>15, <1>16 DEF NoSync
  <2>7. u.sync[m].live => u.mem[m].kind = "alloc" /\ u.mem[m].sync = m
    BY <1>5, <1>8, <1>15, <1>16
  <2>8. Core(u, ch) /\ (Owned(s) => Owned(u))
    BY <1>1, <1>16, <1>17, <2>2, <2>4, <2>5, <2>6, <2>7, NewCore
  <2> QED BY <1>8, <1>16, <1>17, <1>19, <2>1, <2>2, <2>3, <2>8
<1>20. CASE f = "res"
  <2>1. v = FreeDeviceMem(u, m)
    BY <1>18, <1>20
  <2>2. /\ Balanced(u) /\ Live(u, m) /\ u.mem[m].ctx \in Contexts
        /\ (u.mem[m].ctx # Kernel => u.proc[u.mem[m].ctx].st = "up")
    BY <1>3, <1>8, <1>15, <1>16, <1>17 DEF Framed
  <2>3. /\ Balanced(v) /\ Framed(u, v)
        /\ v.mem = [u.mem EXCEPT ![m] = Freed(u.mem[m])] /\ v.sync = u.sync
        /\ v.syncTable = u.syncTable /\ v.exports = u.exports
    BY <2>1, <2>2, FreeBalanced
  <2>4. /\ v.mem[m].st = "freed" /\ v.mem[m].kind = "alloc" /\ v.mem[m].p = p /\ ~v.mem[m].refh
        /\ (\A d \in Mems \ {m} : v.mem[d] = s.mem[d])
    <3>1. u.mem \in [Mems -> MemType]
      BY <2>2 DEF Balanced, States
    <3>2. v.mem[m] = Freed(new)
      BY <1>16, <2>3, <3>1
    <3>3. \A d \in Mems \ {m} : v.mem[d] = s.mem[d]
      BY <1>16, <2>3, <3>1
    <3> QED BY <1>7, <1>8, <3>2, <3>3, FreedFacts
  <2>5. Framed(s, v)
    BY <1>17, <2>3 DEF Framed
  <2>6. ~Live(v, m) /\ Others(s, v, m)
    BY <1>11, <2>4, OthersNew DEF Live
  <2>7. /\ v.exports = s.exports /\ v.syncTable = s.syncTable
        /\ v.mem[m].st # "unused" /\ v.mem[m].kind # "wrap"
        /\ (\A x \in (Mems \cup {Disp}) \ {m} : v.sync[x] = s.sync[x])
    BY <1>12, <1>15, <2>3, <2>4
  <2>8. Core(v, ch)
    BY <1>1, <2>3, <2>5, <2>6, <2>7, NewCore
  <2> QED BY <1>20, <2>4, <2>5, <2>6, <2>8
<1> QED BY <1>19, <1>20

(* A process that has the handle of a heap is up and the heap's context is *)
(* live.                                                                   *)
LEMMA HeapLive ==
  ASSUME GInv, NEW p \in Procs, NEW heap, HasHeap(p, heap)
  PROVE  /\ Now.proc[p].st = "up"
         /\ HeapContext(p, heap) # Kernel => Now.proc[HeapContext(p, heap)].ctx.live
<1>1. Fits(Now, p, proc[p]) /\ Now.proc = proc
  BY ProcFacts, Unfold
<1> QED BY <1>1 DEF HasHeap, HeapContext, Up, Fits

(* PVRSRVAllocDeviceMemBW keeps the invariant.                             *)
LEMMA AllocAction ==
  ASSUME GInv, NEW p \in Procs, NEW m \in Mems, NEW r \in Requests, NEW f,
         PVRSRVAllocDeviceMemBW(p, m, r, f)
  PROVE  GInv' /\ Steady
<1>1. /\ Good(Now, chain) /\ (faults = 0 => Owned(Now)) /\ Now.mem = mem /\ Now.proc = proc
      /\ chain \in Procs \cup {Nobody}
  BY Unfold
<1>2. PICK v : v = PVRSRVAllocDeviceMemKM(Now, p, m, r, f)
  OBVIOUS
<1>3. Now.proc[p].st = "up" /\ Now.mem[m].st = "unused"
  BY <1>1 DEF PVRSRVAllocDeviceMemBW, Fresh, HasHeap, Up
<1>4. HeapContext(p, r.heap) # Kernel => Now.proc[HeapContext(p, r.heap)].ctx.live
  BY HeapLive DEF PVRSRVAllocDeviceMemBW
<1>5. /\ Core(v, chain) /\ (f # "res" => (Owned(Now) => Owned(v)))
      /\ Framed(Now, v) /\ Others(Now, v, m)
      /\ ~v.mem[m].refh /\ v.mem[m].p = p /\ v.mem[m].kind = "alloc"
      /\ f # "res" => Live(v, m) /\ Extra(v, m) = 1
  BY <1>1, <1>2, <1>3, <1>4, AllocGood
<1>6. PICK b \in BOOLEAN : b = (f = "none")
  OBVIOUS
<1>7. Becomes(Handled(v, m, b))
  BY <1>2, <1>6, Zenon DEF PVRSRVAllocDeviceMemBW, Handled
<1>8. Meets(f) /\ chain' = chain
  BY DEF PVRSRVAllocDeviceMemBW
<1>9. faults' = 0 => Owned(v)
  BY <1>1, <1>5, <1>8, MeetsFacts
<1>10. b => /\ Live(v, m) /\ Now.proc[v.mem[m].p].st = "up"
            /\ v.mem[m].kind = "dc" => chain = v.mem[m].p
            /\ v.mem[m].kind = "alloc" => Extra(v, m) = 1
  BY <1>3, <1>5, <1>6
<1> QED BY <1>5, <1>7, <1>8, <1>9, <1>10, NewLands

(* PVRSRVMapDeviceClassMemoryKM: memory with the synchronisation info of   *)
(* the swap chain.                                                         *)
LEMMA DcGood ==
  ASSUME NEW s, NEW p \in Procs, Good(s, p), s.proc[p].st = "up", s.proc[p].ctx.live,
         NEW m \in Mems, s.mem[m].st = "unused", NEW f,
         NEW v, v = PVRSRVMapDeviceClassMemoryKM(s, p, m, f)
  PROVE  /\ Core(v, p) /\ (Owned(s) => Owned(v)) /\ Framed(s, v) /\ Others(s, v, m)
         /\ Live(v, m) /\ v.mem[m].p = p /\ v.mem[m].kind = "dc" /\ ~v.mem[m].refh
<1>1. /\ Core(s, p) /\ Balanced(s) /\ Rest(s, p) /\ s \in States /\ s.mem \in [Mems -> MemType]
  BY CoreFields DEF Good
<1>2. PICK new : new = [Unused EXCEPT !.st = "live", !.kind = "dc", !.p = p, !.ctx = p,
                                      !.addr = "display", !.sync = Disp, !.item = f # "res"]
  OBVIOUS
<1>3. /\ new \in MemType /\ new.st = "live" /\ new.kind = "dc" /\ new.p = p /\ new.ctx = p
      /\ new.sync = Disp /\ new.ref = 0 /\ ~new.refh /\ new.addr = "display"
  <2>1. PICK i \in BOOLEAN : i = (f # "res")
    OBVIOUS
  <2>2. new = [Unused EXCEPT !.st = "live", !.kind = "dc", !.p = p, !.ctx = p,
                             !.addr = "display", !.sync = Disp, !.item = i]
    BY <1>2, <2>1, Zenon
  <2>3. new \in MemType
    BY <2>2, UnusedFacts DEF MemType, Kinds, Contexts
  <2> QED BY <2>2, <2>3, UnusedFacts DEF MemType
<1>4. v = BM_Wrap(s, m, new)
  BY <1>2, Zenon DEF PVRSRVMapDeviceClassMemoryKM
<1>5. ~Live(s, m)
  BY DEF Live
<1>6. p # Kernel /\ p \in Procs \cup {Nobody}
  OBVIOUS
<1>7. /\ Balanced(v) /\ Framed(s, v)
      /\ v.mem = [s.mem EXCEPT ![m] = new] /\ v.sync = s.sync
      /\ v.syncTable = s.syncTable /\ v.exports = s.exports
  <2>1. Balanced(s)
    BY <1>1
  <2>2. new.ctx \in Contexts /\ (new.ctx # Kernel => s.proc[new.ctx].ctx.live)
    BY <1>3 DEF Contexts
  <2> QED BY <1>3, <1>4, <1>5, <2>1, <2>2, WrapBalanced
<1>8. v.mem[m] = new /\ (\A d \in Mems \ {m} : v.mem[d] = s.mem[d]) /\ Live(v, m)
  BY <1>1, <1>3, <1>7 DEF Live
<1>9. Others(s, v, m)
  BY <1>3, <1>5, <1>8, OthersNew
<1>10. Shape(v, m)
  <2>1. v.proc[p].st # "new"
    BY <1>7 DEF Framed
  <2> QED BY <1>3, <1>8, <2>1 DEF Shape
<1>11. RefExact(v, m)
  <2>1. \A d \in Mems \ {m} : Same(v.mem[d], s.mem[d])
    BY <1>8 DEF Same
  <2>2. v.mem[m].kind = "dc" /\ v.mem[m].ref = 0
    BY <1>3, <1>8
  <2>3. s \in States /\ Rest(s, p)
    BY <1>1
  <2>4. v.mem[m].kind = "map" => v.mem[m].src # m
    BY <2>2
  <2>5. v.mem[m].ref \in Nat => Extra(v, m) = v.mem[m].ref
    BY <2>1, <2>3, <2>4, NewMaps
  <2> QED BY <2>2, <2>5 DEF RefExact
<1>12. ~v.sync[m].live
  BY <1>1, <1>7 DEF Rest, SyncsLive
<1>13. /\ v.mem[m].st # "unused" /\ v.mem[m].kind # "wrap" /\ v.mem[m].kind # "alloc"
       /\ \A y \in (Mems \cup {Disp}) \ {m} : v.sync[y] = s.sync[y]
  BY <1>3, <1>7, <1>8
<1>14. Core(v, p) /\ (Owned(s) => Owned(v))
  BY <1>1, <1>6, <1>7, <1>9, <1>10, <1>11, <1>12, <1>13, NewCore
<1> QED BY <1>3, <1>7, <1>8, <1>9, <1>14

(* PVRSRVMapDeviceClassMemoryBW keeps the invariant.                       *)
LEMMA DcAction ==
  ASSUME GInv, NEW p \in Procs, NEW m \in Mems, NEW f, PVRSRVMapDeviceClassMemoryBW(p, m, f)
  PROVE  GInv' /\ Steady
<1>1. /\ Good(Now, chain) /\ (faults = 0 => Owned(Now)) /\ Now.mem = mem /\ Now.proc = proc
  BY Unfold
<1>2. PICK v : v = PVRSRVMapDeviceClassMemoryKM(Now, p, m, f)
  OBVIOUS
<1>3. Now.proc[p].st = "up" /\ Now.mem[m].st = "unused" /\ chain = p
  BY <1>1 DEF PVRSRVMapDeviceClassMemoryBW, Fresh, Up
<1>4. Now.proc[p].ctx.live
  BY <1>1, ProcFacts DEF PVRSRVMapDeviceClassMemoryBW, Fits
<1>5. /\ Core(v, p) /\ (Owned(Now) => Owned(v)) /\ Framed(Now, v) /\ Others(Now, v, m)
      /\ Live(v, m) /\ v.mem[m].p = p /\ v.mem[m].kind = "dc" /\ ~v.mem[m].refh
  BY <1>1, <1>2, <1>3, <1>4, DcGood
<1>6. PICK b \in BOOLEAN : b = (f # "commit")
  OBVIOUS
<1>7. Becomes(Handled(v, m, b))
  BY <1>2, <1>6, Zenon DEF PVRSRVMapDeviceClassMemoryBW, Handled
<1>8. Meets(f) /\ chain' = chain
  BY DEF PVRSRVMapDeviceClassMemoryBW
<1>9. faults' = 0 => Owned(v)
  BY <1>1, <1>5, <1>8, MeetsFacts
<1>10. b => /\ Live(v, m) /\ Now.proc[v.mem[m].p].st = "up"
            /\ v.mem[m].kind = "dc" => chain = v.mem[m].p
            /\ v.mem[m].kind = "alloc" => Extra(v, m) = 1
  BY <1>3, <1>5
<1>11. Core(v, chain)
  BY <1>3, <1>5
<1> QED BY <1>5, <1>7, <1>8, <1>9, <1>10, <1>11, NewLands

(* PVRSRVMapDeviceMemoryKM: one more mapping and one more reference of the *)
(* source.                                                                 *)
LEMMA MapGood ==
  ASSUME NEW s, NEW ch \in Procs \cup {Nobody}, Good(s, ch), NEW p \in Procs, s.proc[p].st = "up",
         NEW m \in Mems, s.mem[m].st = "unused", NEW src \in s.exports, Live(s, src),
         NEW heap, NEW f,
         HeapContext(p, heap) # Kernel => s.proc[HeapContext(p, heap)].ctx.live,
         NEW v, v = PVRSRVMapDeviceMemoryKM(s, p, src, m, heap, f)
  PROVE  /\ Core(v, ch) /\ (Owned(s) => Owned(v)) /\ Framed(s, v) /\ Others(s, v, m)
         /\ Live(v, m) /\ v.mem[m].p = p /\ v.mem[m].kind = "map" /\ ~v.mem[m].refh
<1>1. /\ Core(s, ch) /\ Balanced(s) /\ Rest(s, ch) /\ s \in States /\ s.mem \in [Mems -> MemType]
      /\ s.exports \subseteq Mems
  BY CoreFields DEF Good
<1>2. src \in Mems /\ src # m /\ s.mem[src].exported /\ s.mem[src].ref \in Nat
  BY <1>1 DEF Live, Rest, ExportsLive, MemType
<1>3. PICK c : c = HeapContext(p, heap)
  OBVIOUS
<1>4. c \in {p, Kernel} /\ c \in Contexts /\ (c # Kernel => s.proc[c].ctx.live)
  BY <1>3 DEF HeapContext, Contexts
<1>5. PICK y : y = s.mem[src].sync
  OBVIOUS
<1>6. PICK i : i \in BOOLEAN /\ i = (f # "res")
  OBVIOUS
<1>7. PICK new : new = [Unused EXCEPT !.st = "live", !.kind = "map", !.p = p, !.ctx = c,
                                      !.sync = y, !.src = src, !.item = i]
  OBVIOUS
<1>8. new \in MemType
  <2>1. y \in Mems \cup {Disp, NoSync}
    BY <1>1, <1>2, <1>5 DEF MemType
  <2> QED BY <1>2, <1>4, <1>6, <1>7, <2>1, UnusedFacts DEF MemType, Kinds
<1>9. /\ new.st = "live" /\ new.kind = "map" /\ new.p = p /\ new.ctx = c /\ new.src = src
      /\ new.sync = y /\ new.ref = 0 /\ ~new.refh /\ new.addr = Nobody
  BY <1>7, UnusedFacts DEF MemType
<1>10. ~Live(s, m)
  BY DEF Live
<1>11. PICK w : w = BM_Wrap(s, m, new)
  OBVIOUS
<1>12. /\ Balanced(w) /\ Framed(s, w)
       /\ w.mem = [s.mem EXCEPT ![m] = new] /\ w.sync = s.sync
       /\ w.syncTable = s.syncTable /\ w.exports = s.exports
  <2>1. Balanced(s)
    BY <1>1
  <2>2. new.ctx \in Contexts /\ (new.ctx # Kernel => s.proc[new.ctx].ctx.live)
    BY <1>4, <1>9
  <2> QED BY <1>8, <1>9, <1>10, <1>11, <2>1, <2>2, WrapBalanced
<1>13. w.mem[m] = new /\ (\A d \in Mems \ {m} : w.mem[d] = s.mem[d])
  BY <1>1, <1>12
<1>14. PICK n \in Nat : n = s.mem[src].ref + 1
  BY <1>2
<1>15. v = [w EXCEPT !.mem[src].ref = n]
  <2>1. v = [w EXCEPT !.mem[src].ref = @ + 1]
    BY <1>3, <1>5, <1>6, <1>7, <1>11, Zenon DEF PVRSRVMapDeviceMemoryKM
  <2>2. w.mem[src].ref = s.mem[src].ref
    BY <1>2, <1>13
  <2> QED BY <1>14, <2>1, <2>2
<1>16. w \in States /\ w.mem \in [Mems -> MemType]
  BY <1>12 DEF Balanced, States
<1>17. /\ v = WithMem(w, [w.mem EXCEPT ![src] = WithMemRef(w.mem[src], n)])
       /\ WithMemRef(w.mem[src], n) \in MemType
  <2>1. /\ [w EXCEPT !.mem[src].ref = n]
             = WithMem(w, [w.mem EXCEPT ![src] = WithMemRef(w.mem[src], n)])
        /\ WithMemRef(w.mem[src], n) \in MemType
    BY <1>2, <1>16, MemRefForm
  <2> QED BY <1>15, <2>1
<1>18. /\ v.proc = w.proc /\ v.sync = w.sync /\ v.syncTable = w.syncTable /\ v.kref = w.kref
       /\ v.exports = w.exports /\ v.mem = [w.mem EXCEPT ![src] = WithMemRef(w.mem[src], n)]
  BY <1>17 DEF WithMem
<1>19. v \in States
  <2>1. [w.mem EXCEPT ![src] = WithMemRef(w.mem[src], n)] \in [Mems -> MemType]
    BY <1>16, <1>17
  <2> QED BY <1>16, <1>17, <2>1, WithTypes
<1>20. v.mem[m] = new /\ v.mem[src] = WithMemRef(s.mem[src], n)
       /\ (\A d \in Mems \ {m, src} : v.mem[d] = s.mem[d])
  BY <1>2, <1>13, <1>16, <1>18
<1>21. \A d \in Mems \ {m} : /\ Same(v.mem[d], s.mem[d])
                             /\ v.mem[d].h = s.mem[d].h /\ v.mem[d].refh = s.mem[d].refh
  <2> TAKE d \in Mems \ {m}
  <2>1. CASE d = src
    BY <1>20, <2>1 DEF WithMemRef, Same
  <2>2. CASE d # src
    BY <1>20, <2>2 DEF Same
  <2> QED BY <2>1, <2>2
<1>22. Live(v, m)
  BY <1>9, <1>20 DEF Live
<1>23. Balanced(v)
  <2>1. \A d \in Mems : /\ Live(v, d) <=> Live(w, d)
                        /\ v.mem[d].ctx = w.mem[d].ctx /\ v.mem[d].addr = w.mem[d].addr
    <3> TAKE d \in Mems
    <3>1. CASE d = src
      BY <1>2, <1>13, <1>20, <3>1 DEF WithMemRef, Live
    <3>2. CASE d # src
      BY <1>13, <1>20, <3>2 DEF Live
    <3> QED BY <3>1, <3>2
  <2>2. Balanced(w)
    BY <1>12
  <2>3. /\ v.proc = w.proc /\ v.kref = w.kref
        /\ \A x \in Mems \cup {Disp} : v.sync[x].live = w.sync[x].live
    BY <1>18
  <2> QED BY <1>19, <2>1, <2>2, <2>3, BalancedAlike
<1>24. Framed(s, v)
  BY <1>12, <1>18 DEF Framed
<1>25. Others(s, v, m)
  <2>1. \A d \in Mems \ {m} : Extra(v, d) = Extra(s, d)
    <3> TAKE d \in Mems \ {m}
    <3>1. \A x \in Mems \ {m} : Same(v.mem[x], s.mem[x])
      BY <1>21
    <3>2. CASE d # src
      <4>1. ~(Live(v, m) /\ v.mem[m].kind = "map" /\ v.mem[m].src = d)
        BY <1>9, <1>20, <3>2
      <4>2. MapsOf(v, d) = MapsOf(s, d)
        <5>1. \A x \in Mems \ {m} : x \in MapsOf(v, d) <=> x \in MapsOf(s, d)
          BY <3>1 DEF MapsOf, Same, Live
        <5>2. m \notin MapsOf(v, d) /\ m \notin MapsOf(s, d)
          BY <1>10, <4>1 DEF MapsOf
        <5>3. MapsOf(v, d) \subseteq Mems /\ MapsOf(s, d) \subseteq Mems
          BY DEF MapsOf
        <5>4. \A x : x \in MapsOf(v, d) <=> x \in MapsOf(s, d)
          BY <5>1, <5>2, <5>3
        <5> QED BY <5>4, Zenon
      <4>3. v.mem[d] = s.mem[d]
        BY <1>20, <3>2
      <4> QED BY <4>2, <4>3 DEF Extra
    <3>3. CASE d = src
      <4>1. MapsOf(v, src) = MapsOf(s, src) \cup {m} /\ m \notin MapsOf(s, src)
        <5>1. \A x \in Mems \ {m} : x \in MapsOf(v, src) <=> x \in MapsOf(s, src)
          BY <3>1 DEF MapsOf, Same, Live
        <5>2. m \in MapsOf(v, src) /\ m \notin MapsOf(s, src)
          BY <1>9, <1>10, <1>20, <1>22 DEF MapsOf
        <5>3. MapsOf(v, src) \subseteq Mems /\ MapsOf(s, src) \subseteq Mems
          BY DEF MapsOf
        <5> QED BY <5>1, <5>2, <5>3
      <4>2. IsFiniteSet(MapsOf(s, src)) /\ Cardinality(MapsOf(s, src)) \in Nat
        BY MapsFinite
      <4>3. Cardinality(MapsOf(v, src)) = Cardinality(MapsOf(s, src)) + 1
        BY <4>1, <4>2, FS_AddElement
      <4>4. v.mem[src].ref = s.mem[src].ref + 1
        BY <1>14, <1>20 DEF WithMemRef
      <4> QED BY <1>2, <3>3, <4>2, <4>3, <4>4 DEF Extra
    <3> QED BY <3>2, <3>3
  <2> QED BY <1>21, <2>1 DEF Others
<1>26. Shape(v, m)
  <2>1. v.proc[p].st # "new"
    BY <1>24 DEF Framed
  <2>2. /\ v.mem[src].st = "live" /\ v.mem[src].exported /\ v.mem[src].sync = y
    BY <1>2, <1>5, <1>20 DEF WithMemRef, Live
  <2> QED BY <1>2, <1>4, <1>9, <1>20, <2>1, <2>2 DEF Shape, Live
<1>27. RefExact(v, m)
  <2>1. \A d \in Mems \ {m} : Same(v.mem[d], s.mem[d])
    BY <1>21
  <2>2. v.mem[m].kind = "map" /\ v.mem[m].ref = 0 /\ v.mem[m].src # m
    BY <1>2, <1>9, <1>20
  <2>3. s \in States /\ Rest(s, ch)
    BY <1>1
  <2>4. v.mem[m].ref \in Nat => Extra(v, m) = v.mem[m].ref
    BY <2>1, <2>2, <2>3, NewMaps
  <2> QED BY <2>2, <2>4 DEF RefExact
<1>28. ~v.sync[m].live
  BY <1>1, <1>12, <1>18 DEF Rest, SyncsLive
<1>29. /\ v.mem[m].st # "unused" /\ v.mem[m].kind # "wrap" /\ v.mem[m].kind # "alloc"
       /\ v.exports = s.exports /\ v.syncTable = s.syncTable
       /\ \A x \in (Mems \cup {Disp}) \ {m} : v.sync[x] = s.sync[x]
  BY <1>9, <1>12, <1>18, <1>20
<1>30. Core(v, ch) /\ (Owned(s) => Owned(v))
  BY <1>1, <1>23, <1>24, <1>25, <1>26, <1>27, <1>28, <1>29, NewCore
<1> QED BY <1>9, <1>20, <1>22, <1>24, <1>25, <1>30

(* PVRSRVMapDeviceMemoryBW keeps the invariant.                            *)
LEMMA MapAction ==
  ASSUME GInv, NEW p \in Procs, NEW m \in Mems, NEW src \in Mems, NEW heap, NEW f,
         PVRSRVMapDeviceMemoryBW(p, src, m, heap, f)
  PROVE  GInv' /\ Steady
<1>1. /\ Good(Now, chain) /\ (faults = 0 => Owned(Now)) /\ Now.mem = mem /\ Now.proc = proc
      /\ Now.exports = exports /\ chain \in Procs \cup {Nobody}
  BY Unfold
<1>2. PICK v : v = PVRSRVMapDeviceMemoryKM(Now, p, src, m, heap, f)
  OBVIOUS
<1>3. Now.proc[p].st = "up" /\ Now.mem[m].st = "unused" /\ src \in Now.exports /\ Live(Now, src)
  BY <1>1 DEF PVRSRVMapDeviceMemoryBW, Fresh, HasHeap, Up, Live
<1>4. HeapContext(p, heap) # Kernel => Now.proc[HeapContext(p, heap)].ctx.live
  BY HeapLive DEF PVRSRVMapDeviceMemoryBW
<1>5. /\ Core(v, chain) /\ (Owned(Now) => Owned(v)) /\ Framed(Now, v) /\ Others(Now, v, m)
      /\ Live(v, m) /\ v.mem[m].p = p /\ v.mem[m].kind = "map" /\ ~v.mem[m].refh
  BY <1>1, <1>2, <1>3, <1>4, MapGood
<1>6. PICK b \in BOOLEAN : b = (f # "commit")
  OBVIOUS
<1>7. Becomes(Handled(v, m, b))
  BY <1>2, <1>6, Zenon DEF PVRSRVMapDeviceMemoryBW, Handled
<1>8. Meets(f) /\ chain' = chain
  BY DEF PVRSRVMapDeviceMemoryBW
<1>9. faults' = 0 => Owned(v)
  BY <1>1, <1>5, <1>8, MeetsFacts
<1>10. b => /\ Live(v, m) /\ Now.proc[v.mem[m].p].st = "up"
            /\ v.mem[m].kind = "dc" => chain = v.mem[m].p
            /\ v.mem[m].kind = "alloc" => Extra(v, m) = 1
  BY <1>3, <1>5
<1> QED BY <1>5, <1>7, <1>8, <1>9, <1>10, NewLands

(* A new wrap takes a reference on the synchronisation info of its address. *)
LEMMA WrapReuses ==
  ASSUME NEW s \in States, NEW v \in States, NEW ch \in Procs \cup {Nobody}, Rest(s, ch),
         \A q \in Procs : v.proc[q].st = s.proc[q].st,
         NEW m \in Mems, s.mem[m].st = "unused", \A d \in Mems \ {m} : v.mem[d] = s.mem[d],
         Live(v, m), v.mem[m].kind = "wrap",
         NEW a \in Addrs, NEW x \in Mems, s.syncTable[a] = x, v.mem[m].sync = x,
         v.syncTable = s.syncTable,
         \A y \in (Mems \cup {Disp}) \ {x} : v.sync[y] = s.sync[y],
         v.sync[x].live = s.sync[x].live, v.sync[x].addr = s.sync[x].addr,
         v.sync[x].ref = s.sync[x].ref + 1
  PROVE  /\ TableExact(v) /\ WrapsShare(v) /\ SyncsLive(v) /\ ChainSync(v, ch)
         /\ (Owned(s) => Owned(v))
<1>1. /\ TableExact(s) /\ WrapsShare(s) /\ SyncsLive(s) /\ ChainSync(s, ch)
  BY DEF Rest
<1>2. \A d \in Mems \ {m} : (Live(v, d) <=> Live(s, d)) /\ v.mem[d] = s.mem[d]
  BY DEF Live
<1>3. ~Live(s, m)
  BY DEF Live
<1>4. \A b \in Addrs : s.syncTable[b] # m
  BY <1>1, NotInTable
<1>5. \A y \in Mems \cup {Disp} : v.sync[y].live = s.sync[y].live
  BY <1>1
<1>6. TableExact(v)
  <2> SUFFICES ASSUME NEW b \in Addrs, v.syncTable[b] # NoSync
               PROVE  LET y == v.syncTable[b] IN
                      /\ v.sync[y].live /\ v.sync[y].addr = b
                      /\ v.sync[y].ref = Cardinality(Users(v, y)) /\ v.sync[y].ref > 0
                      /\ v.mem[y].kind = "wrap" /\ v.mem[y].st # "unused"
    BY DEF TableExact
  <2> SUFFICES ASSUME NEW y, y = s.syncTable[b], y # NoSync
               PROVE  /\ v.sync[y].live /\ v.sync[y].addr = b
                      /\ v.sync[y].ref = Cardinality(Users(v, y)) /\ v.sync[y].ref > 0
                      /\ v.mem[y].kind = "wrap" /\ v.mem[y].st # "unused"
    OBVIOUS
  <2>1. /\ s.sync[y].live /\ s.sync[y].addr = b
        /\ s.sync[y].ref = Cardinality(Users(s, y)) /\ s.sync[y].ref > 0
        /\ s.mem[y].kind = "wrap" /\ s.mem[y].st # "unused"
    BY <1>1, Zenon DEF TableExact
  <2>2. y \in Mems /\ y # m
    BY <1>4 DEF States
  <2>3. v.mem[y] = s.mem[y] /\ v.sync[y].live = s.sync[y].live
    BY <1>2, <1>5, <2>2
  <2>4. IsFiniteSet(Users(s, y)) /\ Cardinality(Users(s, y)) \in Nat
    <3>1. Users(s, y) \subseteq Mems
      BY DEF Users
    <3> QED BY <3>1, FS_Subset, FS_CardinalityType
  <2>5. \A d \in Mems \ {m} : d \in Users(v, y) <=> d \in Users(s, y)
    BY <1>2 DEF Users
  <2>6. Users(v, y) \subseteq Mems /\ Users(s, y) \subseteq Mems /\ m \notin Users(s, y)
    BY <1>3 DEF Users
  <2>7. CASE y = x
    <3>1. m \in Users(v, y)
      BY <2>7 DEF Users
    <3>2. Users(v, y) = Users(s, y) \cup {m}
      BY <2>5, <2>6, <3>1
    <3>3. Cardinality(Users(v, y)) = Cardinality(Users(s, y)) + 1
      <4>1. IsFiniteSet(Users(s, y)) /\ m \notin Users(s, y)
        BY <2>4, <2>6
      <4>2. Cardinality(Users(s, y) \cup {m}) = Cardinality(Users(s, y)) + 1
        BY <4>1, FS_AddElement
      <4> QED BY <3>2, <4>2
    <3>4. v.sync[y].ref = s.sync[y].ref + 1 /\ v.sync[y].addr = s.sync[y].addr
      BY <2>7
    <3>5. v.sync[y].ref = Cardinality(Users(v, y)) /\ v.sync[y].ref > 0
      BY <2>1, <2>4, <3>3, <3>4
    <3> QED BY <2>1, <2>3, <3>4, <3>5
  <2>8. CASE y # x
    <3>1. m \notin Users(v, y)
      BY <2>8 DEF Users
    <3>2. \A d : d \in Users(v, y) <=> d \in Users(s, y)
      BY <2>5, <2>6, <3>1
    <3>3. Users(v, y) = Users(s, y)
      BY <3>2, Zenon
    <3>4. v.sync[y] = s.sync[y]
      BY <2>2, <2>8
    <3> QED BY <2>1, <2>3, <3>3, <3>4
  <2> QED BY <2>7, <2>8
<1>7. WrapsShare(v)
  <2> SUFFICES ASSUME NEW d \in Mems, Live(v, d), v.mem[d].kind = "wrap"
               PROVE  \E b \in Addrs : s.syncTable[b] = v.mem[d].sync
    BY DEF WrapsShare
  <2>1. CASE d = m
    BY <2>1
  <2>2. CASE d # m
    BY <1>1, <1>2, <2>2 DEF WrapsShare
  <2> QED BY <2>1, <2>2
<1>8. SyncsLive(v)
  <2> SUFFICES ASSUME NEW d \in Mems
               PROVE  /\ Live(v, d) /\ v.mem[d].kind = "alloc" /\ v.mem[d].sync = d => v.sync[d].live
                      /\ v.mem[d].st = "unused" => ~v.sync[d].live
    BY DEF SyncsLive
  <2>1. CASE d = m
    BY <2>1 DEF Live
  <2>2. CASE d # m
    BY <1>1, <1>2, <1>5, <2>2 DEF SyncsLive
  <2> QED BY <2>1, <2>2
<1>9. ChainSync(v, ch)
  <2>1. v.sync[Disp].live = s.sync[Disp].live
    BY <1>5
  <2>2. ch # Nobody => v.proc[ch].st = s.proc[ch].st
    OBVIOUS
  <2> QED BY <1>1, <2>1, <2>2 DEF ChainSync
<1>10. ASSUME Owned(s) PROVE Owned(v)
  <2> SUFFICES ASSUME NEW y \in Mems, v.sync[y].live
               PROVE  \/ Live(v, y) /\ v.mem[y].kind = "alloc" /\ v.mem[y].sync = y
                      \/ \E b \in Addrs : s.syncTable[b] = y
    BY DEF Owned
  <2>1. s.sync[y].live
    BY <1>5
  <2>2. \/ Live(s, y) /\ s.mem[y].kind = "alloc" /\ s.mem[y].sync = y
        \/ \E b \in Addrs : s.syncTable[b] = y
    BY <1>10, <2>1 DEF Owned
  <2> QED BY <1>2, <1>3, <2>2
<1> QED BY <1>6, <1>7, <1>8, <1>9, <1>10

(* Or makes one and enters it in the table.                                *)
LEMMA WrapMakes ==
  ASSUME NEW s \in States, NEW v \in States, NEW ch \in Procs \cup {Nobody}, Rest(s, ch),
         \A q \in Procs : v.proc[q].st = s.proc[q].st,
         NEW m \in Mems, s.mem[m].st = "unused", \A d \in Mems \ {m} : v.mem[d] = s.mem[d],
         Live(v, m), v.mem[m].kind = "wrap",
         NEW a \in Addrs, s.syncTable[a] = NoSync, v.mem[m].sync = m,
         v.syncTable[a] = m, \A b \in Addrs \ {a} : v.syncTable[b] = s.syncTable[b],
         \A y \in (Mems \cup {Disp}) \ {m} : v.sync[y] = s.sync[y],
         v.sync[m].live, v.sync[m].addr = a, v.sync[m].ref = 1
  PROVE  /\ TableExact(v) /\ WrapsShare(v) /\ SyncsLive(v) /\ ChainSync(v, ch)
         /\ (Owned(s) => Owned(v))
<1>1. /\ TableExact(s) /\ WrapsShare(s) /\ SyncsLive(s) /\ ChainSync(s, ch) /\ Shapes(s)
  BY DEF Rest
<1>2. \A d \in Mems \ {m} : (Live(v, d) <=> Live(s, d)) /\ v.mem[d] = s.mem[d]
  BY DEF Live
<1>3. ~Live(s, m)
  BY DEF Live
<1>4. \A b \in Addrs : s.syncTable[b] # m
  BY <1>1, NotInTable
<1>5. \A d \in Mems \ {m} : Live(s, d) /\ s.mem[d].kind = "wrap" =>
         \E b \in Addrs \ {a} : s.syncTable[b] = s.mem[d].sync
  <2> TAKE d \in Mems \ {m}
  <2> HAVE Live(s, d) /\ s.mem[d].kind = "wrap"
  <2>1. PICK b \in Addrs : s.syncTable[b] = s.mem[d].sync
    BY <1>1 DEF WrapsShare
  <2>2. s.mem[d].sync \in Mems
    BY <1>1 DEF Shapes, Shape
  <2>3. b # a
    BY <2>1, <2>2 DEF NoSync
  <2> QED BY <2>1, <2>3
<1>6. TableExact(v)
  <2> SUFFICES ASSUME NEW b \in Addrs, v.syncTable[b] # NoSync
               PROVE  LET y == v.syncTable[b] IN
                      /\ v.sync[y].live /\ v.sync[y].addr = b
                      /\ v.sync[y].ref = Cardinality(Users(v, y)) /\ v.sync[y].ref > 0
                      /\ v.mem[y].kind = "wrap" /\ v.mem[y].st # "unused"
    BY DEF TableExact
  <2> SUFFICES ASSUME NEW y, y = v.syncTable[b], y # NoSync
               PROVE  /\ v.sync[y].live /\ v.sync[y].addr = b
                      /\ v.sync[y].ref = Cardinality(Users(v, y)) /\ v.sync[y].ref > 0
                      /\ v.mem[y].kind = "wrap" /\ v.mem[y].st # "unused"
    OBVIOUS
  <2>1. CASE b = a
    <3>1. y = m
      BY <2>1
    <3>2. \A d : d \in Users(v, m) <=> d \in {m}
      <4>1. m \in Users(v, m)
        BY DEF Users
      <4>2. ASSUME NEW d \in Users(v, m), d # m PROVE FALSE
        <5>1. d \in Mems \ {m} /\ Live(v, d) /\ v.mem[d].kind = "wrap" /\ v.mem[d].sync = m
          BY <4>2 DEF Users
        <5>2. Live(s, d) /\ s.mem[d].kind = "wrap" /\ s.mem[d].sync = m
          BY <1>2, <5>1
        <5>3. \E e \in Addrs \ {a} : s.syncTable[e] = m
          BY <1>5, <5>1, <5>2
        <5> QED BY <1>4, <5>3
      <4> QED BY <4>1, <4>2
    <3>3. Users(v, m) = {m}
      BY <3>2, Zenon
    <3>4. Cardinality(Users(v, m)) = 1
      <4>1. Cardinality({m}) = 1
        BY FS_Singleton
      <4> QED BY <3>3, <4>1
    <3> QED BY <2>1, <3>1, <3>4 DEF Live
  <2>2. CASE b # a
    <3>1. y = s.syncTable[b]
      BY <2>2
    <3>2. /\ s.sync[y].live /\ s.sync[y].addr = b
          /\ s.sync[y].ref = Cardinality(Users(s, y)) /\ s.sync[y].ref > 0
          /\ s.mem[y].kind = "wrap" /\ s.mem[y].st # "unused"
      <4>1. s.syncTable[b] # NoSync
        BY <3>1
      <4>2. PICK z : z = s.syncTable[b]
        OBVIOUS
      <4>3. /\ s.sync[z].live /\ s.sync[z].addr = b
            /\ s.sync[z].ref = Cardinality(Users(s, z)) /\ s.sync[z].ref > 0
            /\ s.mem[z].kind = "wrap" /\ s.mem[z].st # "unused"
        BY <1>1, <4>1, <4>2, Zenon DEF TableExact
      <4>4. z = y
        BY <3>1, <4>2
      <4> QED BY <4>3, <4>4
    <3>3. y \in Mems /\ y # m
      BY <1>4, <3>1 DEF States
    <3>4. v.mem[y] = s.mem[y] /\ v.sync[y] = s.sync[y]
      BY <1>2, <3>3
    <3>5. \A d \in Mems \ {m} : d \in Users(v, y) <=> d \in Users(s, y)
      BY <1>2 DEF Users
    <3>6. /\ Users(v, y) \subseteq Mems /\ Users(s, y) \subseteq Mems
          /\ m \notin Users(s, y) /\ m \notin Users(v, y)
      BY <1>3, <3>3 DEF Users
    <3>7. \A d : d \in Users(v, y) <=> d \in Users(s, y)
      BY <3>5, <3>6
    <3>8. Users(v, y) = Users(s, y)
      BY <3>7, Zenon
    <3> QED BY <3>2, <3>4, <3>8
  <2> QED BY <2>1, <2>2
<1>7. WrapsShare(v)
  <2> SUFFICES ASSUME NEW d \in Mems, Live(v, d), v.mem[d].kind = "wrap"
               PROVE  \E b \in Addrs : v.syncTable[b] = v.mem[d].sync
    BY DEF WrapsShare
  <2>1. CASE d = m
    BY <2>1
  <2>2. CASE d # m
    <3>1. Live(s, d) /\ s.mem[d].kind = "wrap" /\ v.mem[d].sync = s.mem[d].sync
      BY <1>2, <2>2
    <3>2. PICK b \in Addrs \ {a} : s.syncTable[b] = s.mem[d].sync
      BY <1>5, <2>2, <3>1
    <3> QED BY <3>1, <3>2
  <2> QED BY <2>1, <2>2
<1>8. SyncsLive(v)
  <2> SUFFICES ASSUME NEW d \in Mems
               PROVE  /\ Live(v, d) /\ v.mem[d].kind = "alloc" /\ v.mem[d].sync = d => v.sync[d].live
                      /\ v.mem[d].st = "unused" => ~v.sync[d].live
    BY DEF SyncsLive
  <2>1. CASE d = m
    BY <2>1 DEF Live
  <2>2. CASE d # m
    BY <1>1, <1>2, <2>2 DEF SyncsLive
  <2> QED BY <2>1, <2>2
<1>9. ChainSync(v, ch)
  <2>1. v.sync[Disp] = s.sync[Disp]
    BY DEF Disp
  <2>2. ch # Nobody => v.proc[ch].st = s.proc[ch].st
    OBVIOUS
  <2> QED BY <1>1, <2>1, <2>2 DEF ChainSync
<1>10. ASSUME Owned(s) PROVE Owned(v)
  <2> SUFFICES ASSUME NEW y \in Mems, v.sync[y].live
               PROVE  \/ Live(v, y) /\ v.mem[y].kind = "alloc" /\ v.mem[y].sync = y
                      \/ \E b \in Addrs : v.syncTable[b] = y
    BY DEF Owned
  <2>1. CASE y = m
    BY <2>1
  <2>2. CASE y # m
    <3>1. s.sync[y].live
      BY <2>2
    <3>2. \/ Live(s, y) /\ s.mem[y].kind = "alloc" /\ s.mem[y].sync = y
          \/ \E b \in Addrs : s.syncTable[b] = y
      BY <1>10, <3>1 DEF Owned
    <3>3. CASE Live(s, y) /\ s.mem[y].kind = "alloc" /\ s.mem[y].sync = y
      BY <1>2, <2>2, <3>3
    <3>4. CASE \E b \in Addrs : s.syncTable[b] = y
      <4>1. PICK b \in Addrs : s.syncTable[b] = y
        BY <3>4
      <4>2. b # a
        BY <4>1 DEF NoSync
      <4> QED BY <4>1, <4>2
    <3> QED BY <3>2, <3>3, <3>4
  <2> QED BY <2>1, <2>2
<1> QED BY <1>6, <1>7, <1>8, <1>9, <1>10

(* What a new wrap is before its synchronisation info is looked for.       *)
NewWrap(p, ad, x, i) ==
  [Unused EXCEPT !.st = "live", !.kind = "wrap", !.p = p, !.ctx = p,
                 !.addr = ad, !.sync = x, !.item = i, !.ref = 1]

(* The buffer of a new wrap, before it has a synchronisation info.         *)
LEMMA WrapStart ==
  ASSUME NEW s, NEW ch \in Procs \cup {Nobody}, Core(s, ch), NEW p \in Procs, s.proc[p].st = "up",
         s.proc[p].ctx.live, NEW m \in Mems, s.mem[m].st = "unused", NEW x \in Mems,
         NEW ad \in Addrs \cup {Nobody}, NEW i \in BOOLEAN, NEW new,
         new = NewWrap(p, ad, x, i),
         NEW w, w = BM_Wrap(s, m, new)
  PROVE  /\ Balanced(w) /\ Framed(s, w) /\ w.sync = s.sync
         /\ w.syncTable = s.syncTable /\ w.exports = s.exports
         /\ w.mem[m] = new /\ (\A d \in Mems \ {m} : w.mem[d] = s.mem[d])
         /\ new \in MemType /\ new.st = "live" /\ new.kind = "wrap" /\ new.p = p /\ new.ctx = p
         /\ new.addr = ad /\ new.sync = x /\ new.ref = 1 /\ ~new.refh
<1>1. Balanced(s) /\ s.mem \in [Mems -> MemType]
  BY CoreFields
<1>2. new \in MemType
  BY UnusedFacts DEF MemType, Kinds, Contexts, NewWrap
<1>3. /\ new.st = "live" /\ new.kind = "wrap" /\ new.p = p /\ new.ctx = p
      /\ new.addr = ad /\ new.sync = x /\ new.ref = 1 /\ ~new.refh
  BY UnusedFacts DEF MemType, NewWrap
<1>4. ~Live(s, m)
  BY DEF Live
<1>5. new.ctx \in Contexts /\ (new.ctx # Kernel => s.proc[new.ctx].ctx.live)
  BY <1>3 DEF Contexts
<1>6. PICK r : r = new
  OBVIOUS
<1>7. /\ r \in MemType /\ r.st = "live" /\ r.ctx \in Contexts
      /\ (r.ctx # Kernel => s.proc[r.ctx].ctx.live) /\ w = BM_Wrap(s, m, r)
  BY <1>2, <1>3, <1>5, <1>6
<1>8. /\ Balanced(w) /\ Framed(s, w)
      /\ w.mem = [s.mem EXCEPT ![m] = r] /\ w.sync = s.sync
      /\ w.syncTable = s.syncTable /\ w.exports = s.exports
  BY <1>1, <1>4, <1>7, WrapBalanced
<1>9. w.mem[m] = r /\ (\A d \in Mems \ {m} : w.mem[d] = s.mem[d])
  BY <1>1, <1>8
<1> QED BY <1>2, <1>3, <1>6, <1>8, <1>9

(* A new wrap has the shape and the one reference it should have.          *)
LEMMA WrapShape ==
  ASSUME NEW s, NEW ch \in Procs \cup {Nobody}, Core(s, ch), NEW p \in Procs, s.proc[p].st = "up",
         NEW m \in Mems, s.mem[m].st = "unused", NEW v, Framed(s, v),
         \A d \in Mems \ {m} : v.mem[d] = s.mem[d],
         v.mem[m].st = "live", v.mem[m].kind = "wrap", v.mem[m].p = p, v.mem[m].ctx = p,
         v.mem[m].addr \in Addrs \cup {Nobody}, v.mem[m].sync \in Mems, v.mem[m].ref = 1
  PROVE  Others(s, v, m) /\ Shape(v, m) /\ RefExact(v, m)
<1>1. Rest(s, ch) /\ s \in States
  BY CoreFields
<1>2. ~Live(s, m) /\ v.mem[m].kind # "map"
  BY DEF Live
<1>3. Others(s, v, m)
  BY <1>2, OthersNew
<1>4. Shape(v, m)
  <2>1. v.proc[p].st # "new"
    BY DEF Framed
  <2>2. v.mem[m].addr # "display"
    BY DEF Nobody
  <2> QED BY <2>1, <2>2 DEF Shape
<1>5. RefExact(v, m)
  <2>1. \A d \in Mems \ {m} : Same(v.mem[d], s.mem[d])
    BY DEF Same
  <2>2. v.mem[m].kind = "map" => v.mem[m].src # m
    BY <1>2
  <2>3. v.mem[m].ref \in Nat => Extra(v, m) = v.mem[m].ref
    BY <1>1, <2>1, <2>2, NewMaps
  <2> QED BY <2>3 DEF RefExact
<1> QED BY <1>3, <1>4, <1>5

(* PVRSRVWrapExtMemoryKM, with the synchronisation info of its address     *)
(* made or reused, also where it could not be entered in the table and     *)
(* nobody owns it.                                                         *)
LEMMA WrapGood ==
  ASSUME NEW s, NEW ch \in Procs \cup {Nobody}, Good(s, ch), NEW p \in Procs, s.proc[p].st = "up",
         s.proc[p].ctx.live, NEW m \in Mems, s.mem[m].st = "unused", NEW a \in Addrs,
         NEW contig, NEW f, f = "hash" => s.syncTable[a] = NoSync,
         NEW v, v = PVRSRVWrapExtMemoryKM(s, p, m, a, contig, f)
  PROVE  /\ Core(v, ch) /\ (f # "hash" => (Owned(s) => Owned(v))) /\ Framed(s, v) /\ Others(s, v, m)
         /\ ~v.mem[m].refh /\ v.mem[m].p = p /\ v.mem[m].kind = "wrap"
         /\ f # "hash" => Live(v, m)
<1>1. /\ Core(s, ch) /\ Rest(s, ch) /\ s \in States /\ s.syncTable \in [Addrs -> Mems \cup {NoSync}]
  BY CoreFields DEF Good
<1>2. PICK x : x = IF s.syncTable[a] = NoSync THEN m ELSE s.syncTable[a]
  OBVIOUS
<1>3. x \in Mems
  BY <1>1, <1>2
<1>4. PICK ad : ad = IF contig THEN a ELSE Nobody
  OBVIOUS
<1>5. ad \in Addrs \cup {Nobody}
  BY <1>4
<1>6. PICK i : i \in BOOLEAN /\ i = (f # "res")
  OBVIOUS
<1>7. PICK new : new = NewWrap(p, ad, x, i)
  OBVIOUS
<1>8. PICK w : w = BM_Wrap(s, m, new)
  OBVIOUS
<1>9. /\ Balanced(w) /\ Framed(s, w) /\ w.sync = s.sync
      /\ w.syncTable = s.syncTable /\ w.exports = s.exports
      /\ w.mem[m] = new /\ (\A d \in Mems \ {m} : w.mem[d] = s.mem[d])
      /\ new \in MemType /\ new.st = "live" /\ new.kind = "wrap" /\ new.p = p /\ new.ctx = p
      /\ new.addr = ad /\ new.sync = x /\ new.ref = 1 /\ ~new.refh
  <2>1. i \in BOOLEAN
    BY <1>6
  <2>2. Core(s, ch)
    BY <1>1
  <2> QED BY <1>3, <1>5, <1>7, <1>8, <2>1, <2>2, WrapStart
<1>10. PICK u : u = alloc_or_reuse_syncinfo(w, m, a, f)
  OBVIOUS
<1>11. v = IF f = "hash" THEN FreeDeviceMem(u, m) ELSE u
  BY <1>2, <1>4, <1>6, <1>7, <1>8, <1>10, Zenon DEF PVRSRVWrapExtMemoryKM, NewWrap
<1>12. w \in States /\ w.sync \in [Mems \cup {Disp} -> SyncType]
  BY <1>9 DEF Balanced, States
<1>13. CASE s.syncTable[a] # NoSync
  <2>1. x = s.syncTable[a] /\ f # "hash" /\ v = u /\ w.syncTable[a] = x
    BY <1>2, <1>9, <1>11, <1>13
  <2>2. PICK n \in Nat : n = s.sync[x].ref + 1
    BY <1>3, <1>9, <1>12 DEF SyncType
  <2>3. u = [w EXCEPT !.sync[x].ref = n]
    <3>1. u = [w EXCEPT !.sync[x].ref = @ + 1]
      BY <1>10, <1>13, <1>9, <2>1, Zenon DEF alloc_or_reuse_syncinfo
    <3> QED BY <1>9, <2>2, <3>1
  <2>4. v = WithSync(w, [w.sync EXCEPT ![x] = WithSyncRef(w.sync[x], n)])
    <3>1. [w EXCEPT !.sync[x].ref = n] = WithSync(w, [w.sync EXCEPT ![x] = WithSyncRef(w.sync[x], n)])
      BY <1>3, <1>12, SyncRefForm
    <3> QED BY <2>1, <2>3, <3>1
  <2>5. /\ Balanced(v) /\ v.proc = w.proc /\ v.mem = w.mem
        /\ v.sync = [w.sync EXCEPT ![x] = WithSyncRef(w.sync[x], n)]
        /\ v.syncTable = w.syncTable /\ v.exports = w.exports
    <3>1. Balanced(w) /\ x \in Mems \cup {Disp}
      BY <1>3, <1>9
    <3> QED BY <2>4, <3>1, SyncRefBalanced
  <2>6. /\ \A y \in (Mems \cup {Disp}) \ {x} : v.sync[y] = s.sync[y]
        /\ v.sync[x].live = s.sync[x].live /\ v.sync[x].addr = s.sync[x].addr
        /\ v.sync[x].ref = s.sync[x].ref + 1
    BY <1>3, <1>9, <1>12, <2>2, <2>5 DEF WithSyncRef
  <2>7. /\ v.mem[m].st = "live" /\ v.mem[m].kind = "wrap" /\ v.mem[m].p = p /\ v.mem[m].ctx = p
        /\ v.mem[m].addr \in Addrs \cup {Nobody} /\ v.mem[m].sync = x /\ v.mem[m].ref = 1
        /\ ~v.mem[m].refh /\ \A d \in Mems \ {m} : v.mem[d] = s.mem[d]
    <3>1. v.mem[m] = new /\ \A d \in Mems \ {m} : v.mem[d] = s.mem[d]
      BY <1>9, <2>5
    <3> QED BY <1>5, <1>9, <3>1
  <2>8. Framed(s, v) /\ v \in States /\ Live(v, m) /\ \A q \in Procs : v.proc[q].st = s.proc[q].st
    BY <1>9, <2>5, <2>7 DEF Framed, Balanced, Live
  <2>9. Others(s, v, m) /\ Shape(v, m) /\ RefExact(v, m)
    BY <1>1, <1>3, <2>7, <2>8, WrapShape
  <2>10. v.exports = s.exports /\ v.syncTable = s.syncTable /\ v.mem[m].st # "unused"
    BY <1>9, <2>5, <2>7
  <2>11. Shapes(v) /\ Refs(v) /\ ExportsLive(v)
    BY <1>1, <2>8, <2>9, <2>10, NewRest
  <2>12. /\ TableExact(v) /\ WrapsShare(v) /\ SyncsLive(v) /\ ChainSync(v, ch)
         /\ (Owned(s) => Owned(v))
    <3>1. s.syncTable[a] = x
      BY <2>1
    <3> QED BY <1>1, <1>3, <2>6, <2>7, <2>8, <2>10, <3>1, WrapReuses
  <2>13. Core(v, ch)
    BY <2>5, <2>11, <2>12 DEF Core, Rest
  <2> QED BY <2>1, <2>7, <2>8, <2>9, <2>12, <2>13
<1>14. CASE s.syncTable[a] = NoSync
  <2>1. x = m /\ w.syncTable[a] = NoSync
    BY <1>2, <1>9, <1>14
  <2>2. PICK t : t = PVRSRVAllocSyncInfoKM(w, m, a)
    OBVIOUS
  <2>3. ~w.sync[m].live
    BY <1>1, <1>9 DEF Rest, SyncsLive
  <2>4. /\ Balanced(t) /\ t.proc = w.proc /\ t.mem = w.mem
        /\ t.sync = [w.sync EXCEPT ![m] = NewSync(a)]
        /\ t.syncTable = w.syncTable /\ t.exports = w.exports
    <3>1. Balanced(w) /\ m \in Mems \cup {Disp}
      BY <1>9
    <3>2. PICK k \in Addrs \cup {Nobody} : k = a
      OBVIOUS
    <3>3. t = PVRSRVAllocSyncInfoKM(w, m, k)
      BY <2>2, <3>2
    <3>4. /\ Balanced(t) /\ t.proc = w.proc /\ t.mem = w.mem
          /\ t.sync = [w.sync EXCEPT ![m] = NewSync(k)]
          /\ t.syncTable = w.syncTable /\ t.exports = w.exports
      BY <2>3, <3>1, <3>3, AllocSyncBalanced
    <3> QED BY <3>2, <3>4
  <2>5. /\ \A y \in (Mems \cup {Disp}) \ {m} : t.sync[y] = s.sync[y]
        /\ t.sync[m] = NewSync(a)
    BY <1>9, <1>12, <2>4
  <2>6. t.sync[m].live /\ t.sync[m].addr = a /\ t.sync[m].ref = 1
    BY <2>5 DEF NewSync
  <2>7. u = IF f = "hash" THEN t ELSE [t EXCEPT !.syncTable[a] = m]
    BY <1>10, <2>1, <2>2, Zenon DEF alloc_or_reuse_syncinfo
  <2>8. CASE f # "hash"
    <3>1. v = [t EXCEPT !.syncTable[a] = m]
      BY <1>11, <2>7, <2>8
    <3>2. /\ Balanced(v) /\ v.proc = t.proc /\ v.mem = t.mem /\ v.sync = t.sync
          /\ v.syncTable = [t.syncTable EXCEPT ![a] = m] /\ v.exports = t.exports
      <4>1. Balanced(t)
        BY <2>4
      <4>2. PICK k \in Mems \cup {NoSync} : k = m
        OBVIOUS
      <4>3. PICK z : z = Entered(t, a, k)
        OBVIOUS
      <4>4. /\ Balanced(z) /\ z.proc = t.proc /\ z.mem = t.mem /\ z.sync = t.sync
            /\ z.syncTable = [t.syncTable EXCEPT ![a] = k] /\ z.exports = t.exports
        BY <4>1, <4>3, TableBalanced
      <4>5. v = z
        BY <3>1, <4>2, <4>3 DEF Entered
      <4> QED BY <4>2, <4>4, <4>5
    <3>3. v.syncTable[a] = m /\ \A b \in Addrs \ {a} : v.syncTable[b] = s.syncTable[b]
      BY <1>1, <1>9, <2>4, <3>2
    <3>4. /\ v.mem[m].st = "live" /\ v.mem[m].kind = "wrap" /\ v.mem[m].p = p /\ v.mem[m].ctx = p
          /\ v.mem[m].addr \in Addrs \cup {Nobody} /\ v.mem[m].sync = m /\ v.mem[m].ref = 1
          /\ ~v.mem[m].refh /\ \A d \in Mems \ {m} : v.mem[d] = s.mem[d]
      BY <1>5, <1>9, <2>1, <2>4, <3>2
    <3>5. Framed(s, v) /\ v \in States /\ Live(v, m) /\ \A q \in Procs : v.proc[q].st = s.proc[q].st
      BY <1>9, <2>4, <3>2, <3>4 DEF Framed, Balanced, Live
    <3>6. Others(s, v, m) /\ Shape(v, m) /\ RefExact(v, m)
      <4>1. PICK z : z = v
        OBVIOUS
      <4>2. /\ z.mem[m].sync \in Mems /\ Core(s, ch) /\ Framed(s, z)
            /\ s.proc[p].st = "up" /\ s.mem[m].st = "unused"
        BY <1>1, <3>4, <3>5, <4>1
      <4>3. \A d \in Mems \ {m} : z.mem[d] = s.mem[d]
        BY <3>4, <4>1
      <4>4. /\ z.mem[m].st = "live" /\ z.mem[m].kind = "wrap" /\ z.mem[m].p = p /\ z.mem[m].ctx = p
            /\ z.mem[m].addr \in Addrs \cup {Nobody} /\ z.mem[m].ref = 1
        BY <3>4, <4>1
      <4>5. Others(s, z, m) /\ Shape(z, m) /\ RefExact(z, m)
        BY <4>2, <4>3, <4>4, WrapShape
      <4> QED BY <4>1, <4>5
    <3>7. v.exports = s.exports /\ v.mem[m].st # "unused"
      BY <1>9, <2>4, <3>2, <3>4
    <3>8. Shapes(v) /\ Refs(v) /\ ExportsLive(v)
      BY <1>1, <3>5, <3>6, <3>7, NewRest
    <3>9. /\ \A y \in (Mems \cup {Disp}) \ {m} : v.sync[y] = s.sync[y]
          /\ v.sync[m].live /\ v.sync[m].addr = a /\ v.sync[m].ref = 1
      BY <2>5, <2>6, <3>2
    <3>10. /\ TableExact(v) /\ WrapsShare(v) /\ SyncsLive(v) /\ ChainSync(v, ch)
           /\ (Owned(s) => Owned(v))
      BY <1>1, <1>14, <3>3, <3>4, <3>5, <3>9, WrapMakes
    <3>11. Core(v, ch)
      BY <3>2, <3>8, <3>10 DEF Core, Rest
    <3> QED BY <2>8, <3>4, <3>5, <3>6, <3>10, <3>11
  <2>9. CASE f = "hash"
    <3>1. v = FreeDeviceMem(t, m)
      BY <1>11, <2>7, <2>9
    <3>2. /\ Balanced(t) /\ Live(t, m) /\ t.mem[m].ctx \in Contexts /\ t.mem[m] = new
          /\ (t.mem[m].ctx # Kernel => t.proc[t.mem[m].ctx].st = "up")
      BY <1>9, <2>4 DEF Framed, Live, Contexts
    <3>3. /\ Balanced(v) /\ Framed(t, v)
          /\ v.mem = [t.mem EXCEPT ![m] = Freed(t.mem[m])] /\ v.sync = t.sync
          /\ v.syncTable = t.syncTable /\ v.exports = t.exports
      BY <3>1, <3>2, FreeBalanced
    <3>4. /\ v.mem[m].st = "freed" /\ v.mem[m].kind = "wrap" /\ v.mem[m].p = p /\ ~v.mem[m].refh
          /\ (\A d \in Mems \ {m} : v.mem[d] = s.mem[d])
      <4>1. t.mem \in [Mems -> MemType]
        BY <3>2 DEF Balanced, States
      <4>2. v.mem[m] = Freed(new)
        BY <3>2, <3>3, <4>1
      <4>3. \A d \in Mems \ {m} : v.mem[d] = s.mem[d]
        BY <1>9, <2>4, <3>3, <4>1
      <4>4. new \in MemType /\ new.kind = "wrap" /\ new.p = p /\ ~new.refh
        BY <1>9
      <4>5. PICK q : q = Freed(new)
        OBVIOUS
      <4>6. q.st = "freed" /\ q.kind = new.kind /\ q.p = new.p /\ q.refh = new.refh
        BY <4>4, <4>5, FreedFacts
      <4>7. v.mem[m] = q
        BY <4>2, <4>5
      <4> QED BY <4>3, <4>4, <4>6, <4>7
    <3>5. Framed(s, v)
      BY <1>9, <2>4, <3>3 DEF Framed
    <3>6. ~Live(v, m) /\ Others(s, v, m)
      <4>1. ~Live(s, m)
        BY DEF Live
      <4>2. ~Live(v, m)
        BY <3>4 DEF Live
      <4>3. Others(s, v, m)
        BY <3>4, <4>1, <4>2, OthersNew
      <4> QED BY <4>2, <4>3
    <3>7. /\ v.exports = s.exports /\ v.syncTable = s.syncTable /\ v.mem[m].st # "unused"
          /\ (\A y \in (Mems \cup {Disp}) \ {m} : v.sync[y] = s.sync[y])
      BY <1>9, <2>4, <2>5, <3>3, <3>4
    <3>8. Core(v, ch)
      <4>1. Core(s, ch) /\ Balanced(v)
        BY <1>1, <3>3
      <4> QED BY <3>5, <3>6, <3>7, <4>1, NewCore
    <3> QED BY <2>9, <3>4, <3>5, <3>6, <3>8
  <2> QED BY <2>8, <2>9
<1> QED BY <1>13, <1>14

(* PVRSRVWrapExtMemoryBW keeps the invariant.                              *)
LEMMA WrapAction ==
  ASSUME GInv, NEW p \in Procs, NEW m \in Mems, NEW a \in Addrs, NEW contig, NEW f,
         PVRSRVWrapExtMemoryBW(p, m, a, contig, f)
  PROVE  GInv' /\ Steady
<1>1. /\ Good(Now, chain) /\ (faults = 0 => Owned(Now)) /\ Now.mem = mem /\ Now.proc = proc
      /\ Now.syncTable = syncTable /\ chain \in Procs \cup {Nobody}
  BY Unfold
<1>2. PICK v : v = PVRSRVWrapExtMemoryKM(Now, p, m, a, contig, f)
  OBVIOUS
<1>3. /\ Now.proc[p].st = "up" /\ Now.mem[m].st = "unused"
      /\ (f = "hash" => Now.syncTable[a] = NoSync)
  BY <1>1 DEF PVRSRVWrapExtMemoryBW, Fresh, Up
<1>4. Now.proc[p].ctx.live
  BY <1>1, ProcFacts DEF PVRSRVWrapExtMemoryBW, Fits
<1>5. /\ Core(v, chain) /\ (f # "hash" => (Owned(Now) => Owned(v)))
      /\ Framed(Now, v) /\ Others(Now, v, m)
      /\ ~v.mem[m].refh /\ v.mem[m].p = p /\ v.mem[m].kind = "wrap"
      /\ f # "hash" => Live(v, m)
  <2>1. Good(Now, chain) /\ chain \in Procs \cup {Nobody}
    BY <1>1
  <2>2. f = "hash" => Now.syncTable[a] = NoSync
    BY <1>3
  <2> QED BY <1>2, <1>3, <1>4, <2>1, <2>2, WrapGood
<1>6. PICK b : b = (f \in {"none", "res"})
  OBVIOUS
<1>11. b \in BOOLEAN
  BY <1>6
<1>7. Becomes(Handled(v, m, b))
  BY <1>2, <1>6, Zenon DEF PVRSRVWrapExtMemoryBW, Handled
<1>8. Meets(f) /\ chain' = chain
  BY DEF PVRSRVWrapExtMemoryBW
<1>9. faults' = 0 => Owned(v)
  BY <1>1, <1>5, <1>8, MeetsFacts
<1>10. b => /\ Live(v, m) /\ Now.proc[v.mem[m].p].st = "up"
            /\ v.mem[m].kind = "dc" => chain = v.mem[m].p
            /\ v.mem[m].kind = "alloc" => Extra(v, m) = 1
  BY <1>3, <1>5, <1>6
<1> QED BY <1>5, <1>7, <1>8, <1>9, <1>10, <1>11, NewLands

-----------------------------------------------------------------------------
(***************************************************************************)
(* The resource manager frees a set of memory infos one by one.            *)
(***************************************************************************)

(* The member of a set that free_one_res frees last.                       *)
Pick(t) == CHOOSE m \in t : TRUE

(* Induction over a finite set, one member at a time, for a set of subsets *)
(* instead of a property: the library's theorem has an operator as a       *)
(* parameter.                                                              *)
LEMMA SubsetInduction ==
  ASSUME NEW S, IsFiniteSet(S), NEW G, {} \in G,
         \A K \in SUBSET S : K # {} /\ K \ {Pick(K)} \in G => K \in G
  PROVE  S \in G
<1> DEFINE Bad == {K \in SUBSET S : K \notin G}
<1>1. SUFFICES ASSUME Bad # {} PROVE FALSE
  OBVIOUS
<1>2. \A K \in SUBSET S : IsFiniteSet(K)
  BY FS_Subset
<1>3. Bad \subseteq FiniteSubsetsOf(S)
  BY <1>2 DEF FiniteSubsetsOf
<1>4. IsWellFoundedOn(StrictSubsetOrdering(S), FiniteSubsetsOf(S))
  BY FS_StrictSubsetOrderingWellFounded
<1>5. PICK K \in Bad : \A L \in Bad : ~(<<L, K>> \in StrictSubsetOrdering(S))
  <2> HIDE DEF Bad
  <2> QED BY <1>1, <1>3, <1>4, WFMin
<1>6. K \in SUBSET S /\ K # {} /\ K \notin G
  OBVIOUS
<1>7. PICK x \in K : x = Pick(K)
  BY <1>6, Zenon DEF Pick
<1>8. K \ {x} \in SUBSET S /\ K \ {x} \subseteq K /\ K \ {x} # K
  BY <1>6, <1>7
<1>9. <<K \ {x}, K>> \in StrictSubsetOrdering(S)
  BY <1>6, <1>8 DEF StrictSubsetOrdering
<1>10. K \ {x} \in G
  BY <1>5, <1>8, <1>9
<1> QED BY <1>6, <1>7, <1>10

(* The subsets of S that are no larger than K.                             *)
Level(S, K) == {t \in SUBSET S : Cardinality(t) <= Cardinality(K)}

(* Taking a member away leads one level down.                              *)
LEMMA LevelFacts ==
  ASSUME NEW S, IsFiniteSet(S), NEW K \in SUBSET S
  PROVE  /\ Level(S, S) = SUBSET S /\ Level(S, {}) = {{}}
         /\ K # {} => \A t \in Level(S, K) :
              t # {} => Pick(t) \in t /\ t \ {Pick(t)} \in Level(S, K \ {Pick(K)})
<1>1. ASSUME NEW t \in SUBSET S
      PROVE  IsFiniteSet(t) /\ Cardinality(t) \in Nat /\ Cardinality(t) <= Cardinality(S)
  <2>1. IsFiniteSet(t) /\ Cardinality(t) <= Cardinality(S)
    BY FS_Subset
  <2> QED BY <2>1, FS_CardinalityType
<1>2. Cardinality(S) \in Nat
  BY FS_CardinalityType
<1>3. Level(S, S) = SUBSET S
  BY <1>1, <1>2 DEF Level
<1>4. Cardinality({}) = 0
  BY FS_EmptySet
<1>5. Level(S, {}) = {{}}
  <2>1. ASSUME NEW t \in SUBSET S, Cardinality(t) <= 0 PROVE t = {}
    <3>1. Cardinality(t) = 0
      BY <1>1, <2>1
    <3> QED BY <1>1, <3>1, FS_EmptySet
  <2>2. {} \in SUBSET S
    OBVIOUS
  <2> QED BY <1>4, <2>1, <2>2 DEF Level
<1>6. ASSUME K # {}, NEW t \in Level(S, K), t # {}
      PROVE  Pick(t) \in t /\ t \ {Pick(t)} \in Level(S, K \ {Pick(K)})
  <2>1. Pick(t) \in t /\ Pick(K) \in K
    BY <1>6, Zenon DEF Pick
  <2>2. t \in SUBSET S /\ Cardinality(t) <= Cardinality(K)
    BY DEF Level
  <2>3. IsFiniteSet(t) /\ Cardinality(t) \in Nat /\ IsFiniteSet(K) /\ Cardinality(K) \in Nat
    BY <1>1, <2>2
  <2>4. PICK y \in t : y = Pick(t)
    BY <2>1
  <2>5. PICK x \in K : x = Pick(K)
    BY <2>1
  <2>6. Cardinality(t \ {y}) = Cardinality(t) - 1
    BY <2>3, FS_RemoveElement
  <2>7. Cardinality(K \ {x}) = Cardinality(K) - 1
    BY <2>3, FS_RemoveElement
  <2>8. Cardinality(t \ {y}) <= Cardinality(K \ {x})
    BY <2>2, <2>3, <2>6, <2>7
  <2>9. t \ {y} \in Level(S, K \ {x})
    BY <2>2, <2>8 DEF Level
  <2> QED BY <2>1, <2>4, <2>5, <2>9
<1> QED BY <1>3, <1>5, <1>6

(* The states in which the subsets of S are freed, one after the other.    *)
Frees(it, s, D) ==
  \A t \in D : it[t] = IF t = {} THEN s ELSE FreeResourceByPtr(it[t \ {Pick(t)}], Pick(t))
FreeAll(s, S) == FoldSet(LAMBDA m, t : FreeResourceByPtr(t, m), s, S)

(* FoldSet frees the members of a finite set one after the other: there is *)
(* a function from the subsets to the states on the way.                   *)
LEMMA FreeAllDef ==
  ASSUME NEW S, IsFiniteSet(S), NEW s
  PROVE  \E it : FreeAll(s, S) = it[S] /\ Frees(it, s, SUBSET S)
<1> DEFINE G == {K \in SUBSET S : \E it : Frees(it, s, Level(S, K))}
<1>1. {} \in G
  <2>1. Level(S, {}) = {{}}
    BY LevelFacts
  <2>2. Frees([t \in {{}} |-> s], s, Level(S, {}))
    BY <2>1 DEF Frees
  <2> QED BY <2>2
<1>2. ASSUME NEW K \in SUBSET S, K # {}, K \ {Pick(K)} \in G PROVE K \in G
  <2>1. PICK it : Frees(it, s, Level(S, K \ {Pick(K)}))
    BY <1>2
  <2> DEFINE new == [t \in Level(S, K) |-> IF t = {} THEN s
                        ELSE FreeResourceByPtr(it[t \ {Pick(t)}], Pick(t))]
  <2>2. \A t \in Level(S, K) : t # {} => t \ {Pick(t)} \in Level(S, K \ {Pick(K)})
    BY <1>2, LevelFacts
  <2>3. \A t \in Level(S, K \ {Pick(K)}) : t \in Level(S, K) => new[t] = it[t]
    BY <2>1 DEF Frees
  <2>4. Level(S, K \ {Pick(K)}) \subseteq Level(S, K)
    <3>1. PICK x \in K : x = Pick(K)
      BY <1>2, Zenon DEF Pick
    <3>2. IsFiniteSet(K)
      BY FS_Subset
    <3>3. Cardinality(K \ {x}) = Cardinality(K) - 1 /\ Cardinality(K) \in Nat
      BY <3>2, FS_RemoveElement, FS_CardinalityType
    <3>4. \A t \in SUBSET S : Cardinality(t) \in Nat
      <4> TAKE t \in SUBSET S
      <4>1. IsFiniteSet(t)
        BY FS_Subset
      <4> QED BY <4>1, FS_CardinalityType
    <3>5. Level(S, K \ {x}) \subseteq Level(S, K)
      BY <3>3, <3>4 DEF Level
    <3> QED BY <3>1, <3>5
  <2>5. Frees(new, s, Level(S, K))
    <3>1. ASSUME NEW t \in Level(S, K), t # {} PROVE new[t \ {Pick(t)}] = it[t \ {Pick(t)}]
      BY <2>2, <2>3, <2>4, <3>1
    <3>2. \A t \in Level(S, K) : new[t] = IF t = {} THEN s
                        ELSE FreeResourceByPtr(it[t \ {Pick(t)}], Pick(t))
      OBVIOUS
    <3> HIDE DEF new
    <3> QED BY <3>1, <3>2, Zenon DEF Frees
  <2> HIDE DEF new
  <2> QED BY <2>5
<1>3. S \in G
  <2> HIDE DEF G
  <2> QED BY <1>1, <1>2, SubsetInduction
<1>4. PICK it : Frees(it, s, SUBSET S)
  <2>1. Level(S, S) = SUBSET S
    BY LevelFacts
  <2> QED BY <1>3, <2>1
<1> DEFINE Eq(f) == f = [t \in SUBSET S |-> IF t = {} THEN s
                           ELSE FreeResourceByPtr(f[t \ {CHOOSE m \in t : TRUE}],
                                                  CHOOSE m \in t : TRUE)]
<1> DEFINE g == [t \in SUBSET S |-> it[t]]
<1>5. Eq(g)
  <2>1. \A t \in SUBSET S : g[t] = IF t = {} THEN s
                           ELSE FreeResourceByPtr(g[t \ {CHOOSE m \in t : TRUE}],
                                                  CHOOSE m \in t : TRUE)
    <3>1. \A t \in SUBSET S : g[t] = it[t] /\ t \ {CHOOSE m \in t : TRUE} \in SUBSET S
      OBVIOUS
    <3> HIDE DEF g
    <3> QED BY <1>4, <3>1, Zenon DEF Frees, Pick
  <2>2. g = [t \in SUBSET S |-> g[t]]
    OBVIOUS
  <2> HIDE DEF g
  <2> QED BY <2>1, <2>2
<1>6. PICK f : f = CHOOSE h : Eq(h)
  OBVIOUS
<1>7. Eq(f)
  <2> HIDE DEF Eq, g
  <2> QED BY <1>5, <1>6
<1>8. FreeAll(s, S) = f[S]
  BY <1>6, Zenon DEF FreeAll, FoldSet, MapThenFoldSet
<1>9. Frees(f, s, SUBSET S)
  BY <1>7 DEF Frees, Pick
<1> QED BY <1>8, <1>9

(* What freeing the memory infos in K, all of one kind, leaves behind.     *)
Kept(s, t, d) ==
  /\ Same(t.mem[d], s.mem[d]) /\ t.mem[d].h = s.mem[d].h /\ t.mem[d].refh = s.mem[d].refh
  /\ Live(s, d) => Extra(t, d) = Extra(s, d)
Gone(s, t, d) ==
  /\ t.mem[d].kind = s.mem[d].kind /\ t.mem[d].p = s.mem[d].p
  /\ t.mem[d].h = s.mem[d].h /\ t.mem[d].refh = s.mem[d].refh
  /\ \/ t.mem[d].st = "freed"
     \/ s.mem[d].kind = "alloc" /\ Live(t, d) /\ ~t.mem[d].item /\ MapsOf(t, d) # {}
Swept(s, t, K) ==
  Framed(s, t) /\ (\A d \in Mems \ K : Kept(s, t, d)) /\ (\A d \in K : Gone(s, t, d))

(* The resource manager may free the memory infos in K of process p.      *)
Sweepable(s, p, kind, K) ==
  \A d \in K : /\ Live(s, d) /\ s.mem[d].p = p /\ s.mem[d].kind = kind
               /\ kind = "alloc" => Extra(s, d) = 1

(* One more memory info of the process is freed on the way.                *)
LEMMA SweepOne ==
  ASSUME NEW s, NEW ch \in Procs \cup {Nobody}, NEW p \in Procs, s.proc[p].st = "up", NEW kind,
         NEW K \in SUBSET Mems, NEW x \in K,
         Sweepable(s, p, kind, K),
         NEW u, Core(u, ch), Swept(s, u, K \ {x}), NEW t, t = FreeResourceByPtr(u, x)
  PROVE  Core(t, ch) /\ (Owned(u) => Owned(t)) /\ Swept(s, t, K)
<1>1. Kept(s, u, x) /\ Framed(s, u) /\ x \in Mems
  BY DEF Swept
<1>2. /\ Live(u, x) /\ u.mem[x].p = p /\ u.mem[x].kind = kind
      /\ u.mem[x].h = s.mem[x].h /\ u.mem[x].refh = s.mem[x].refh
      /\ kind = "alloc" => Extra(u, x) = 1
  BY <1>1 DEF Kept, Same, Live, Sweepable
<1>3. u.proc[u.mem[x].p].st = "up" /\ (u.mem[x].kind = "alloc" => Extra(u, x) = 1)
  BY <1>1, <1>2 DEF Framed
<1>4. Core(t, ch) /\ Released(u, t, x) /\ (Owned(u) => Owned(t))
  BY <1>1, <1>2, <1>3, FreeKeeps
<1>5. Framed(s, t)
  BY <1>1, <1>4 DEF Released, Framed
<1>6. ASSUME NEW d \in Mems \ K PROVE Kept(s, t, d)
  <2>1. Kept(s, u, d) /\ d \in Mems \ {x}
    BY <1>6 DEF Swept
  <2>2. /\ Same(t.mem[d], u.mem[d]) /\ t.mem[d].h = u.mem[d].h /\ t.mem[d].refh = u.mem[d].refh
        /\ Live(u, d) => Extra(t, d) = Extra(u, d)
    BY <1>4, <2>1 DEF Released, Others
  <2>3. Live(s, d) => Live(u, d)
    BY <2>1 DEF Kept, Same, Live
  <2> QED BY <2>1, <2>2, <2>3 DEF Kept, Same
<1>7. ASSUME NEW d \in K PROVE Gone(s, t, d)
  <2>1. CASE d = x
    <3>1. /\ t.mem[x].kind = u.mem[x].kind /\ t.mem[x].p = u.mem[x].p
          /\ t.mem[x].h = u.mem[x].h /\ t.mem[x].refh = u.mem[x].refh
          /\ \/ t.mem[x].st = "freed"
             \/ u.mem[x].kind = "alloc" /\ Live(t, x) /\ ~t.mem[x].item /\ MapsOf(t, x) # {}
      BY <1>4 DEF Released
    <3> QED BY <1>2, <2>1, <3>1 DEF Gone, Sweepable
  <2>2. CASE d # x
    <3>1. Gone(s, u, d) /\ d \in Mems \ {x}
      BY <2>2 DEF Swept
    <3>2. /\ Same(t.mem[d], u.mem[d]) /\ t.mem[d].h = u.mem[d].h /\ t.mem[d].refh = u.mem[d].refh
      BY <1>4, <3>1 DEF Released, Others
    <3>3. kind = "alloc" => MapsOf(t, d) = MapsOf(u, d)
      <4>1. \A n \in Mems \ {x} : Same(t.mem[n], u.mem[n])
        BY <1>4 DEF Released, Others
      <4>2. HAVE kind = "alloc"
      <4>3. ~(Live(u, x) /\ u.mem[x].kind = "map" /\ u.mem[x].src = d)
        BY <1>2, <4>2
      <4>4. ~(Live(t, x) /\ t.mem[x].kind = "map" /\ t.mem[x].src = d)
        BY <1>2, <1>4, <4>2 DEF Released
      <4>5. PICK z : z = t
        OBVIOUS
      <4>6. /\ \A n \in Mems \ {x} : Same(z.mem[n], u.mem[n])
            /\ ~(Live(z, x) /\ z.mem[x].kind = "map" /\ z.mem[x].src = d) /\ x \in Mems
        BY <1>1, <4>1, <4>4, <4>5
      <4>7. MapsOf(z, d) = MapsOf(u, d)
        BY <4>3, <4>6, MapsKept
      <4> QED BY <4>5, <4>7
    <3> QED BY <3>1, <3>2, <3>3 DEF Gone, Same, Live, Sweepable
  <2> QED BY <2>1, <2>2
<1> QED BY <1>4, <1>5, <1>6, <1>7 DEF Swept

(* All of them are.                                                        *)
LEMMA SweepAll ==
  ASSUME NEW s, NEW ch \in Procs \cup {Nobody}, Core(s, ch), NEW p \in Procs,
         s.proc[p].st = "up", NEW kind, NEW S \in SUBSET Mems,
         Sweepable(s, p, kind, S),
         NEW t, t = FreeAll(s, S)
  PROVE  Core(t, ch) /\ (Owned(s) => Owned(t)) /\ Swept(s, t, S)
<1>1. IsFiniteSet(S)
  BY FS_Subset
<1>2. PICK it : FreeAll(s, S) = it[S] /\ Frees(it, s, SUBSET S)
  BY <1>1, FreeAllDef
<1> DEFINE Holds(K) == Core(it[K], ch) /\ (Owned(s) => Owned(it[K])) /\ Swept(s, it[K], K)
<1> DEFINE G == {K \in SUBSET S : Holds(K)}
<1>3. {} \in G
  <2>1. it[{}] = s
    BY <1>2 DEF Frees
  <2>2. Swept(s, s, {})
    BY DEF Swept, Kept, Same, Framed
  <2>3. Holds({})
    BY <2>1, <2>2
  <2> HIDE DEF Holds
  <2> QED BY <2>3
<1>4. ASSUME NEW K \in SUBSET S, K # {}, K \ {Pick(K)} \in G PROVE K \in G
  <2>1. PICK x \in K : x = Pick(K)
    BY <1>4, Zenon DEF Pick
  <2>2. PICK u : u = it[K \ {x}]
    OBVIOUS
  <2>3. Core(u, ch) /\ (Owned(s) => Owned(u)) /\ Swept(s, u, K \ {x})
    BY <1>4, <2>1, <2>2
  <2>4. PICK v : v = it[K]
    OBVIOUS
  <2>5. v = FreeResourceByPtr(u, x)
    <3>1. it[K] = IF K = {} THEN s ELSE FreeResourceByPtr(it[K \ {Pick(K)}], Pick(K))
      BY <1>2 DEF Frees
    <3> QED BY <1>4, <2>1, <2>2, <2>4, <3>1
  <2>6. K \in SUBSET Mems /\ Sweepable(s, p, kind, K)
    BY DEF Sweepable
  <2>7. Core(v, ch) /\ (Owned(u) => Owned(v)) /\ Swept(s, v, K)
    BY <2>3, <2>5, <2>6, SweepOne
  <2>8. Holds(K)
    BY <2>3, <2>4, <2>7
  <2> HIDE DEF Holds
  <2> QED BY <2>8
<1>5. S \in G
  <2> HIDE DEF G
  <2> QED BY <1>1, <1>3, <1>4, SubsetInduction
<1>6. Holds(S) /\ t = it[S]
  BY <1>2, <1>5
<1> QED BY <1>6

(* A type of resources is freed.                                           *)
LEMMA SweepKind ==
  ASSUME NEW s, NEW ch \in Procs \cup {Nobody}, Core(s, ch), NEW p \in Procs,
         s.proc[p].st = "up", NEW kind, NEW t, t = free_one_res(s, p, kind)
  PROVE  Core(t, ch) /\ (Owned(s) => Owned(t)) /\ Swept(s, t, Items(s, p, kind))
<1>1. PICK S : S = Items(s, p, kind)
  OBVIOUS
<1>2. t = FreeAll(s, S)
  BY <1>1, Zenon DEF free_one_res, FreeAll
<1>3. S \in SUBSET Mems /\ \A d \in S : /\ d \in Mems /\ Live(s, d) /\ s.mem[d].item
                                        /\ s.mem[d].p = p /\ s.mem[d].kind = kind
  BY <1>1 DEF Items
<1>4. ASSUME NEW d \in S, kind = "alloc" PROVE Extra(s, d) = 1
  <2>1. d \in Mems /\ Live(s, d) /\ s.mem[d].item /\ s.mem[d].kind = "alloc"
    BY <1>3, <1>4
  <2>2. RefExact(s, d)
    BY <2>1, CoreFields DEF Rest, Refs
  <2> QED BY <2>1, <2>2 DEF RefExact
<1>5. Core(t, ch) /\ (Owned(s) => Owned(t)) /\ Swept(s, t, S)
  <2>1. S \in SUBSET Mems /\ Sweepable(s, p, kind, S)
    BY <1>3, <1>4 DEF Sweepable
  <2> QED BY <1>2, <2>1, SweepAll
<1> QED BY <1>1, <1>5

(* The items of another type are freed: what was freed before has not made *)
(* or removed any of them.                                                 *)
LEMMA SweepMore ==
  ASSUME NEW s, NEW ch \in Procs \cup {Nobody}, NEW p \in Procs, s.proc[p].st = "up",
         NEW K \in SUBSET Mems, NEW kind,
         \A d \in K : s.mem[d].kind # "alloc" /\ s.mem[d].kind # kind,
         NEW a, Core(a, ch), Owned(s) => Owned(a), Swept(s, a, K),
         NEW b, b = free_one_res(a, p, kind)
  PROVE  Core(b, ch) /\ (Owned(s) => Owned(b)) /\ Swept(s, b, K \cup Items(s, p, kind))
<1>1. PICK L : L = Items(s, p, kind)
  OBVIOUS
<1>2. Items(a, p, kind) = L
  <2>1. ASSUME NEW d \in Mems
        PROVE  /\ Live(a, d) /\ a.mem[d].item /\ a.mem[d].p = p /\ a.mem[d].kind = kind
               <=> Live(s, d) /\ s.mem[d].item /\ s.mem[d].p = p /\ s.mem[d].kind = kind
    <3>1. CASE d \in K
      <4>1. Gone(s, a, d)
        BY <3>1 DEF Swept
      <4> QED BY <3>1, <4>1 DEF Gone
    <3>2. CASE d \notin K
      <4>1. Kept(s, a, d)
        BY <3>2 DEF Swept
      <4> QED BY <4>1 DEF Kept, Same, Live
    <3> QED BY <3>1, <3>2
  <2>2. \A d : d \in Items(a, p, kind) <=> d \in Items(s, p, kind)
    BY <2>1 DEF Items
  <2>3. Items(a, p, kind) = Items(s, p, kind)
    BY <2>2, Zenon
  <2> QED BY <1>1, <2>3
<1>3. a.proc[p].st = "up"
  BY DEF Swept, Framed
<1>4. Core(b, ch) /\ (Owned(a) => Owned(b)) /\ Swept(a, b, L)
  BY <1>2, <1>3, SweepKind
<1>5. L \in SUBSET Mems /\ \A d \in L : d \notin K
  BY <1>1 DEF Items
<1>6. Framed(s, b)
  BY <1>4 DEF Swept, Framed
<1>7. ASSUME NEW d \in Mems \ (K \cup L) PROVE Kept(s, b, d)
  <2>1. Kept(s, a, d) /\ Kept(a, b, d)
    BY <1>4 DEF Swept
  <2> QED BY <2>1 DEF Kept, Same, Live
<1>8. ASSUME NEW d \in K PROVE Gone(s, b, d)
  <2>1. Gone(s, a, d) /\ Kept(a, b, d)
    BY <1>4, <1>5 DEF Swept
  <2> QED BY <2>1 DEF Kept, Same, Gone
<1>9. ASSUME NEW d \in L PROVE Gone(s, b, d)
  <2>1. Kept(s, a, d) /\ Gone(a, b, d)
    BY <1>4, <1>5 DEF Swept
  <2> QED BY <2>1 DEF Kept, Same, Gone
<1>10. Swept(s, b, K \cup L)
  BY <1>6, <1>7, <1>8, <1>9 DEF Swept
<1> QED BY <1>1, <1>4, <1>10

(* All that a process has registered, of the types that are freed.         *)
ItemsOf(s, p) == {m \in Mems : Live(s, m) /\ s.mem[m].item /\ s.mem[m].p = p
                                          /\ s.mem[m].kind # "sys"}

(* PVRSRVResManDisconnect frees everything the process has registered,     *)
(* type by type, and destroys its context.                                 *)
LEMMA SweepProcess ==
  ASSUME NEW s, NEW ch \in Procs \cup {Nobody}, Core(s, ch), NEW p \in Procs, s.proc[p].st = "up",
         NEW e, e = PVRSRVResManDisconnect(s, p)
  PROVE  \E t : /\ Core(t, ch) /\ (Owned(s) => Owned(t)) /\ Swept(s, t, ItemsOf(s, p))
                /\ e = BM_DestroyContextCallBack(t, p)
<1>1. PICK a : a = free_one_res(s, p, "dc")
  OBVIOUS
<1>2. PICK b : b = free_one_res(a, p, "wrap")
  OBVIOUS
<1>3. PICK c : c = free_one_res(b, p, "map")
  OBVIOUS
<1>4. PICK t : t = free_one_res(c, p, "alloc")
  OBVIOUS
<1>5. e = BM_DestroyContextCallBack(t, p)
  <2>1. /\ FreeOrder[1] = "dc" /\ FreeOrder[2] = "wrap"
        /\ FreeOrder[3] = "map" /\ FreeOrder[4] = "alloc"
    BY DEF FreeOrder
  <2> QED BY <1>1, <1>2, <1>3, <1>4, <2>1, Zenon DEF PVRSRVResManDisconnect
<1>6. PICK K0 : K0 = {}
  OBVIOUS
<1>7. PICK K1 : K1 = K0 \cup Items(s, p, "dc")
  OBVIOUS
<1>8. PICK K2 : K2 = K1 \cup Items(s, p, "wrap")
  OBVIOUS
<1>9. PICK K3 : K3 = K2 \cup Items(s, p, "map")
  OBVIOUS
<1>10. PICK K4 : K4 = K3 \cup Items(s, p, "alloc")
  OBVIOUS
<1>11. /\ K0 \in SUBSET Mems /\ K1 \in SUBSET Mems /\ K2 \in SUBSET Mems /\ K3 \in SUBSET Mems
  BY <1>6, <1>7, <1>8, <1>9 DEF Items
<1>12. /\ \A d \in K0 : s.mem[d].kind # "alloc" /\ s.mem[d].kind # "dc"
       /\ \A d \in K1 : s.mem[d].kind # "alloc" /\ s.mem[d].kind # "wrap"
       /\ \A d \in K2 : s.mem[d].kind # "alloc" /\ s.mem[d].kind # "map"
       /\ \A d \in K3 : s.mem[d].kind # "alloc"
  BY <1>6, <1>7, <1>8, <1>9 DEF Items
<1>13. Swept(s, s, K0)
  BY <1>6 DEF Swept, Kept, Same, Framed
<1>14. Core(a, ch) /\ (Owned(s) => Owned(a)) /\ Swept(s, a, K1)
  BY <1>1, <1>7, <1>11, <1>12, <1>13, SweepMore
<1>15. Core(b, ch) /\ (Owned(s) => Owned(b)) /\ Swept(s, b, K2)
  BY <1>2, <1>8, <1>11, <1>12, <1>14, SweepMore
<1>16. Core(c, ch) /\ (Owned(s) => Owned(c)) /\ Swept(s, c, K3)
  BY <1>3, <1>9, <1>11, <1>12, <1>15, SweepMore
<1>17. Core(t, ch) /\ (Owned(s) => Owned(t)) /\ Swept(s, t, K4)
  BY <1>4, <1>10, <1>11, <1>12, <1>16, SweepMore
<1>18. K4 = ItemsOf(s, p)
  <2>1. s.mem \in [Mems -> MemType]
    BY CoreFields
  <2>2. \A d \in Mems : s.mem[d].kind \in Kinds
    BY <2>1 DEF MemType
  <2>3. \A d : d \in K4 <=> d \in ItemsOf(s, p)
    BY <1>6, <1>7, <1>8, <1>9, <1>10, <2>2 DEF Items, ItemsOf, Kinds
  <2> QED BY <2>3, Zenon
<1> QED BY <1>5, <1>17, <1>18

(* The record of a process that is gone, and the state it leaves behind.   *)
DeadProc == [st |-> "gone", heaps |-> FALSE, ctx |-> NoContext]
Buried(s, p, g) ==
  [proc |-> [s.proc EXCEPT ![p] = DeadProc], mem |-> g, sync |-> s.sync,
   syncTable |-> s.syncTable, exports |-> s.exports, kref |-> s.kref]

(* The state PVRSRVDisconnect leaves behind, as a record.                  *)
LEMMA BuriedForm ==
  ASSUME NEW s \in States, NEW p \in Procs, NEW e, e = BM_DestroyContextCallBack(s, p), NEW g
  PROVE  /\ [e EXCEPT !.proc[p] = [e.proc[p] EXCEPT !.st = "gone", !.heaps = FALSE], !.mem = g]
              = Buried(s, p, g)
         /\ e.mem = s.mem
<1>1. e = WithProc(s, p, WithoutContext(s.proc[p]))
  BY DestroyForm
<1>2. PICK q \in [Procs -> ProcType] : q = [s.proc EXCEPT ![p] = WithoutContext(s.proc[p])]
  <2>1. s.proc \in [Procs -> ProcType] /\ WithoutContext(s.proc[p]) \in ProcType
    BY StateFields, DestroyForm
  <2> QED BY <2>1
<1>3. e = [proc |-> q, mem |-> s.mem, sync |-> s.sync, syncTable |-> s.syncTable,
           exports |-> s.exports, kref |-> s.kref]
  BY <1>1, <1>2 DEF WithProc
<1>4. q[p] = WithoutContext(s.proc[p])
  BY <1>2, StateFields
<1>5. [q[p] EXCEPT !.st = "gone", !.heaps = FALSE] = DeadProc
  <2>1. PICK w : w = FALSE
    OBVIOUS
  <2>2. PICK x, h, n : q[p] = [st |-> x, heaps |-> h, ctx |-> n] /\ n = NoContext
    BY <1>4 DEF WithoutContext
  <2>3. [q[p] EXCEPT !.st = "gone", !.heaps = w] = [st |-> "gone", heaps |-> w, ctx |-> n]
    <3>1. PICK y : y = [q[p] EXCEPT !.st = "gone"]
      OBVIOUS
    <3>2. y = [st |-> "gone", heaps |-> h, ctx |-> n]
      BY <2>2, <3>1
    <3>3. [y EXCEPT !.heaps = w] = [st |-> "gone", heaps |-> w, ctx |-> n]
      BY <3>2
    <3> QED BY <3>1, <3>3, Zenon
  <2> QED BY <2>1, <2>2, <2>3, Zenon DEF DeadProc
<1>6. [q EXCEPT ![p] = DeadProc] = [s.proc EXCEPT ![p] = DeadProc]
  <2>1. s.proc \in [Procs -> ProcType]
    BY StateFields
  <2> QED BY <1>2, <2>1
<1>7. [e EXCEPT !.proc[p] = DeadProc, !.mem = g] = Buried(s, p, g)
  <2>1. PICK f, a, b, c, k : /\ f = s.mem /\ a = s.sync /\ b = s.syncTable
                             /\ c = s.exports /\ k = s.kref
    OBVIOUS
  <2>2. e = [proc |-> q, mem |-> f, sync |-> a, syncTable |-> b, exports |-> c, kref |-> k]
    BY <1>3, <2>1
  <2>3. PICK r : r = DeadProc
    OBVIOUS
  <2>4. [e EXCEPT !.proc[p] = r, !.mem = g] =
         [proc |-> [q EXCEPT ![p] = r], mem |-> g, sync |-> a, syncTable |-> b,
          exports |-> c, kref |-> k]
    <3>1. PICK x : x = [e EXCEPT !.proc[p] = r]
      OBVIOUS
    <3>2. PICK y : y = [q EXCEPT ![p] = r]
      OBVIOUS
    <3>3. x = [proc |-> y, mem |-> f, sync |-> a, syncTable |-> b, exports |-> c, kref |-> k]
      BY <2>2, <3>1, <3>2
    <3>4. [x EXCEPT !.mem = g] = [proc |-> y, mem |-> g, sync |-> a, syncTable |-> b,
                                  exports |-> c, kref |-> k]
      BY <3>3
    <3>5. [e EXCEPT !.proc[p] = r, !.mem = g] = [x EXCEPT !.mem = g]
      BY <3>1, Zenon
    <3> QED BY <3>2, <3>4, <3>5, Zenon
  <2> QED BY <1>6, <2>1, <2>3, <2>4, Zenon DEF Buried
<1>8. e.proc = q /\ e.mem = s.mem
  BY <1>3
<1>9. [e.proc[p] EXCEPT !.st = "gone", !.heaps = FALSE] = DeadProc
  BY <1>5, <1>8, Zenon
<1> QED BY <1>7, <1>8, <1>9, Zenon

(* The handles of a process go with it.                                    *)
WithoutHandles(f, p) ==
  [m \in Mems |-> IF f[m].p = p THEN DropHandles(f[m], FALSE) ELSE f[m]]

(* Dropping the handles of a process changes nothing else.                 *)
LEMMA WithoutHandlesFacts ==
  ASSUME NEW f \in [Mems -> MemType], NEW p, NEW g, g = WithoutHandles(f, p)
  PROVE  /\ g \in [Mems -> MemType]
         /\ \A m \in Mems : /\ Same(g[m], f[m]) /\ g[m].ref = f[m].ref
                            /\ f[m].p = p => ~g[m].h /\ ~g[m].refh
                            /\ f[m].p # p => g[m] = f[m]
<1>1. PICK w : w \in BOOLEAN /\ w = FALSE
  OBVIOUS
<1>2. ASSUME NEW m \in Mems
      PROVE  /\ g[m] \in MemType /\ Same(g[m], f[m]) /\ g[m].ref = f[m].ref
             /\ f[m].p = p => ~g[m].h /\ ~g[m].refh
             /\ f[m].p # p => g[m] = f[m]
  <2>1. g[m] = IF f[m].p = p THEN DropHandles(f[m], FALSE) ELSE f[m]
    BY DEF WithoutHandles
  <2>2. f[m] \in MemType
    OBVIOUS
  <2>3. DropHandles(f[m], w) = WithHandles(f[m], FALSE, w)
    BY <2>2, DropForm
  <2>4. PICK r : r = WithHandles(f[m], w, w)
    OBVIOUS
  <2>5. DropHandles(f[m], FALSE) = r
    BY <1>1, <2>3, <2>4
  <2>6. r \in MemType
    BY <1>1, <2>2, <2>4, HandlesType
  <2>7. Same(r, f[m]) /\ r.ref = f[m].ref /\ r.h = w /\ r.refh = w
    BY <2>4, HandlesFacts
  <2>8. CASE f[m].p = p
    <3>1. g[m] = r
      BY <2>1, <2>5, <2>8
    <3> QED BY <1>1, <2>6, <2>7, <2>8, <3>1
  <2>9. CASE f[m].p # p
    <3>1. g[m] = f[m]
      BY <2>1, <2>9
    <3> QED BY <2>2, <2>9, <3>1 DEF Same
  <2> QED BY <2>8, <2>9
<1>3. DOMAIN g = Mems /\ g = [m \in Mems |-> g[m]]
  BY DEF WithoutHandles
<1> QED BY <1>2, <1>3

(* A process is gone with its context and its handles.                     *)
LEMMA BuryGood ==
  ASSUME NEW s, NEW ch \in Procs \cup {Nobody}, Good(s, ch), NEW p \in Procs, ch # p,
         NEW u, Core(u, ch), Owned(s) => Owned(u), Swept(s, u, ItemsOf(s, p)),
         NEW g, g = WithoutHandles(u.mem, p), NEW t, t = Buried(u, p, g)
  PROVE  /\ Good(t, ch) /\ (Owned(s) => Owned(t)) /\ t.mem = g
         /\ t.proc = [u.proc EXCEPT ![p] = DeadProc]
<1>1. /\ Balanced(u) /\ Rest(u, ch) /\ u \in States /\ u.mem \in [Mems -> MemType]
      /\ u.proc \in [Procs -> ProcType]
  BY CoreFields
<1>2. /\ g \in [Mems -> MemType]
      /\ \A m \in Mems : /\ Same(g[m], u.mem[m]) /\ g[m].ref = u.mem[m].ref
                         /\ u.mem[m].p = p => ~g[m].h /\ ~g[m].refh
                         /\ u.mem[m].p # p => g[m] = u.mem[m]
  BY <1>1, WithoutHandlesFacts
<1>3. /\ t.proc = [u.proc EXCEPT ![p] = DeadProc] /\ t.mem = g /\ t.sync = u.sync
      /\ t.syncTable = u.syncTable /\ t.exports = u.exports /\ t.kref = u.kref
  BY DEF Buried
<1>4. t \in States
  <2>1. DeadProc \in ProcType
    BY DEF DeadProc, ProcType, ContextType, NoContext
  <2>2. [u.proc EXCEPT ![p] = DeadProc] \in [Procs -> ProcType]
    BY <1>1, <2>1
  <2>3. g \in [Mems -> MemType]
    BY <1>2
  <2>4. /\ u.sync \in [Mems \cup {Disp} -> SyncType] /\ u.exports \subseteq Mems /\ u.kref \in Nat
        /\ u.syncTable \in [Addrs -> Mems \cup {NoSync}]
    BY <1>1, StateFields
  <2> QED BY <2>2, <2>3, <2>4 DEF Buried, States
<1>5. t.proc[p] = DeadProc /\ \A q \in Procs \ {p} : t.proc[q] = u.proc[q]
  BY <1>1, <1>3
<1>6. \A d \in Mems : /\ Live(t, d) <=> Live(u, d)
                      /\ t.mem[d].ctx = u.mem[d].ctx /\ t.mem[d].addr = u.mem[d].addr
  BY <1>2, <1>3 DEF Same, Live
<1>7. \A c : BuffersOf(t, c) = BuffersOf(u, c) /\ InContext(t, c) = InContext(u, c)
  <2> TAKE c
  <2>1. \A d : d \in InContext(t, c) <=> d \in InContext(u, c)
    BY <1>6 DEF InContext
  <2>2. InContext(t, c) = InContext(u, c)
    BY <2>1, Zenon
  <2>3. \A d \in InContext(u, c) : Buffer(t, d) = Buffer(u, d)
    BY <1>6 DEF Buffer, InContext
  <2> QED BY <2>2, <2>3 DEF BuffersOf
<1>8. Balanced(t)
  <2>1. ASSUME NEW q \in Procs PROVE ContextExact(t, q)
    <3>1. CASE q = p
      <4>1. /\ t.proc[q].ctx = NoContext /\ t.proc[q].st = "gone"
        BY <1>5, <3>1 DEF DeadProc
      <4> QED BY <4>1 DEF ContextExact, NoContext
    <3>2. CASE q # p
      <4>1. t.proc[q] = u.proc[q] /\ ContextExact(u, q)
        BY <1>1, <1>5, <3>2 DEF Balanced, ContextsExact
      <4> QED BY <1>7, <4>1 DEF ContextExact
    <3> QED BY <3>1, <3>2
  <2>2. KernelExact(t)
    <3>1. KernelExact(u)
      BY <1>1 DEF Balanced
    <3>2. LiveSyncs(t) = LiveSyncs(u)
      BY <1>3 DEF LiveSyncs
    <3> QED BY <1>3, <1>7, <3>1, <3>2 DEF KernelExact
  <2> QED BY <1>4, <2>1, <2>2 DEF Balanced, ContextsExact
<1>9. Alike(u, t)
  BY <1>2, <1>3 DEF Alike
<1>10. \A q \in Procs : u.proc[q].st # "new" => t.proc[q].st # "new"
  BY <1>5 DEF DeadProc
<1>11. ChainSync(t, ch)
  <2>1. ChainSync(u, ch)
    BY <1>1 DEF Rest
  <2>2. ch # Nobody => t.proc[ch] = u.proc[ch]
    BY <1>5
  <2> QED BY <1>3, <2>1, <2>2 DEF ChainSync
<1>12. Rest(t, ch) /\ (Owned(u) => Owned(t))
  BY <1>1, <1>9, <1>10, <1>11, RestAlike
<1>13. Handles(t, ch)
  <2> SUFFICES ASSUME NEW d \in Mems
               PROVE  /\ t.mem[d].h => /\ Live(t, d) /\ t.proc[t.mem[d].p].st = "up"
                                       /\ t.mem[d].kind = "dc" => ch = t.mem[d].p
                                       /\ t.mem[d].kind = "alloc" => Extra(t, d) = 1
                      /\ t.mem[d].refh /\ t.mem[d].kind # "dc" => t.mem[d].h
    BY DEF Handles
  <2>1. CASE u.mem[d].p = p
    BY <1>2, <1>3, <2>1
  <2>2. CASE u.mem[d].p # p
    <3>1. t.mem[d] = u.mem[d]
      BY <1>2, <1>3, <2>2
    <3>2. d \notin ItemsOf(s, p)
      <4>1. d \in ItemsOf(s, p) => u.mem[d].p = s.mem[d].p
        BY DEF Swept, Gone
      <4> QED BY <2>2, <4>1 DEF ItemsOf
    <3>3. Kept(s, u, d) /\ Framed(s, u)
      BY <3>2 DEF Swept
    <3>4. Extra(t, d) = Extra(u, d)
      BY <1>9, AlikeMaps
    <3>5. /\ s.mem[d].h => /\ Live(s, d) /\ s.proc[s.mem[d].p].st = "up"
                           /\ s.mem[d].kind = "dc" => ch = s.mem[d].p
                           /\ s.mem[d].kind = "alloc" => Extra(s, d) = 1
          /\ s.mem[d].refh /\ s.mem[d].kind # "dc" => s.mem[d].h
      BY DEF Good, Handles
    <3>6. /\ t.mem[d].st = s.mem[d].st /\ t.mem[d].kind = s.mem[d].kind /\ t.mem[d].p = s.mem[d].p
          /\ t.mem[d].h = s.mem[d].h /\ t.mem[d].refh = s.mem[d].refh
          /\ Live(s, d) => Live(t, d) /\ Extra(t, d) = Extra(s, d)
      BY <3>1, <3>3, <3>4 DEF Kept, Same, Live
    <3>7. Live(s, d) => s.mem[d].p \in Procs
      BY DEF Good, Core, Rest, Shapes, Shape
    <3>8. Live(s, d) => t.proc[s.mem[d].p].st = s.proc[s.mem[d].p].st
      <4>1. s.mem[d].p # p
        BY <2>2, <3>1, <3>6
      <4> QED BY <1>5, <3>3, <3>7, <4>1 DEF Framed
    <3> QED BY <3>5, <3>6, <3>8
  <2> QED BY <2>1, <2>2
<1> QED BY <1>3, <1>8, <1>12, <1>13 DEF Good, Core

(* What is left of a process after its resources were swept, and what of   *)
(* it is still live.                                                       *)
LeavesNothing(s, t, p) ==
  /\ ~t.proc[p].ctx.live
  /\ \A m \in Mems : s.mem[m].p = p /\ s.mem[m].item /\ t.mem[m].st = "live" =>
        \/ s.mem[m].kind = "sys"
        \/ \E d \in Mems : /\ t.mem[d].st = "live" /\ s.mem[d].src = m
                           /\ s.mem[d].p # p \/ ~s.mem[d].item

(* What was registered for the process is freed, or it is an allocation    *)
(* that a mapping keeps which is not the process's or was never            *)
(* registered.                                                             *)
LEMMA BuryLeaves ==
  ASSUME NEW s, NEW ch, Core(s, ch), NEW p \in Procs, NEW u, Core(u, ch),
         Swept(s, u, ItemsOf(s, p)),
         NEW g, g = WithoutHandles(u.mem, p), NEW t, t = Buried(u, p, g)
  PROVE  LeavesNothing(s, t, p) /\ \A q \in Procs \ {p} : t.proc[q].st = s.proc[q].st
<1>1. /\ u.mem \in [Mems -> MemType] /\ u.proc \in [Procs -> ProcType]
      /\ Shapes(s)
  BY CoreFields DEF Core, Rest
<1>2. \A d \in Mems : t.mem[d].st = u.mem[d].st
  <2>1. \A d \in Mems : Same(g[d], u.mem[d])
    BY <1>1, WithoutHandlesFacts
  <2>2. t.mem = g
    BY DEF Buried
  <2> QED BY <2>1, <2>2 DEF Same
<1>3. t.proc[p] = DeadProc /\ \A q \in Procs \ {p} : t.proc[q] = u.proc[q]
  BY <1>1 DEF Buried
<1>4. \A q \in Procs : u.proc[q].st = s.proc[q].st
  BY DEF Swept, Framed
<1>5. ~t.proc[p].ctx.live
  BY <1>3 DEF DeadProc, NoContext
<1>6. ASSUME NEW m \in Mems, s.mem[m].p = p, s.mem[m].item, t.mem[m].st = "live",
             s.mem[m].kind # "sys"
      PROVE  \E d \in Mems : /\ t.mem[d].st = "live" /\ s.mem[d].src = m
                             /\ s.mem[d].p # p \/ ~s.mem[d].item
  <2>1. Live(u, m)
    BY <1>2, <1>6 DEF Live
  <2>2. m \in ItemsOf(s, p)
    <3>1. m \notin ItemsOf(s, p) => Kept(s, u, m)
      BY DEF Swept
    <3>2. Kept(s, u, m) => Live(s, m)
      BY <2>1 DEF Kept, Same, Live
    <3> QED BY <1>6, <3>1, <3>2 DEF ItemsOf
  <2>3. Gone(s, u, m)
    BY <2>2 DEF Swept
  <2>4. PICK d \in MapsOf(u, m) : TRUE
    BY <2>1, <2>3 DEF Gone, Live
  <2>5. d \in Mems /\ Live(u, d) /\ u.mem[d].kind = "map" /\ u.mem[d].src = m
    BY <2>4 DEF MapsOf
  <2>6. d \notin ItemsOf(s, p)
    <3>1. d \in ItemsOf(s, p) => Gone(s, u, d)
      BY DEF Swept
    <3>2. ~Gone(s, u, d)
      BY <2>5 DEF Gone, Live
    <3> QED BY <3>1, <3>2
  <2>7. Kept(s, u, d)
    BY <2>5, <2>6 DEF Swept
  <2>8. s.mem[d].src = m /\ Live(s, d) /\ s.mem[d].kind = "map"
    BY <2>5, <2>7 DEF Kept, Same, Live
  <2>9. s.mem[d].p # p \/ ~s.mem[d].item
    BY <2>5, <2>6, <2>8 DEF ItemsOf
  <2>10. t.mem[d].st = "live"
    BY <1>2, <2>5 DEF Live
  <2> QED BY <2>5, <2>8, <2>9, <2>10
<1> QED BY <1>3, <1>4, <1>5, <1>6 DEF LeavesNothing

(* The death of a process: its swap chain goes first, then what it has     *)
(* registered, its context and its handles.                                *)
LEMMA DisconnectAction ==
  ASSUME GInv, NEW p \in Procs, PVRSRVDisconnect(p)
  PROVE  /\ GInv' /\ LeavesNothing(Now, Now', p)
         /\ \A q \in Procs \ {p} : proc'[q].st = proc[q].st
<1>1. /\ Good(Now, chain) /\ (faults = 0 => Owned(Now)) /\ Now.proc = proc
      /\ chain \in Procs \cup {Nobody} /\ load \in Loads /\ faults \in 0..load.faults
  BY Unfold
<1>2. PICK n : n = IF chain = p THEN Nobody ELSE chain
  OBVIOUS
<1>3. PICK s : s = IF chain = p THEN DropChain(Now, p) ELSE Now
  OBVIOUS
<1>4. /\ n \in Procs \cup {Nobody} /\ n # p /\ Good(s, n) /\ (Owned(Now) => Owned(s))
      /\ Alike(Now, s) /\ s.proc = proc
  <2>1. CASE chain = p
    <3>1. n = Nobody /\ s = DropChain(Now, p) /\ Good(Now, p)
      BY <1>1, <1>2, <1>3, <2>1
    <3>2. Good(s, Nobody) /\ (Owned(Now) => Owned(s)) /\ Alike(Now, s) /\ s.proc = Now.proc
      BY <3>1, DropGood
    <3>3. p # Nobody
      OBVIOUS
    <3> QED BY <1>1, <3>1, <3>2, <3>3
  <2>2. CASE chain # p
    <3>1. n = chain /\ s = Now
      BY <1>2, <1>3, <2>2
    <3> QED BY <1>1, <2>2, <3>1 DEF Alike, Same
  <2> QED BY <2>1, <2>2
<1>5. Core(s, n) /\ s.proc[p].st = "up"
  BY <1>4 DEF Good, PVRSRVDisconnect, Up
<1>6. PICK e : e = PVRSRVResManDisconnect(s, p)
  OBVIOUS
<1>7. PICK u : /\ Core(u, n) /\ (Owned(s) => Owned(u)) /\ Swept(s, u, ItemsOf(s, p))
               /\ e = BM_DestroyContextCallBack(u, p)
  BY <1>4, <1>5, <1>6, SweepProcess
<1>8. u \in States
  BY <1>7, CoreFields
<1>9. PICK g : g = WithoutHandles(u.mem, p)
  OBVIOUS
<1>10. PICK t : t = Buried(u, p, g)
  OBVIOUS
<1>11. /\ [e EXCEPT !.proc[p] = [e.proc[p] EXCEPT !.st = "gone", !.heaps = FALSE], !.mem = g] = t
       /\ e.mem = u.mem
  <2>1. e = BM_DestroyContextCallBack(u, p)
    BY <1>7
  <2> QED BY <1>8, <1>10, <2>1, BuriedForm
<1>12. Becomes(t)
  <2>1. g = [m \in Mems |-> IF e.mem[m].p = p THEN DropHandles(e.mem[m], FALSE) ELSE e.mem[m]]
    BY <1>9, <1>11, Zenon DEF WithoutHandles
  <2>2. e = PVRSRVResManDisconnect(IF chain = p THEN DropChain(Now, p) ELSE Now, p)
    BY <1>3, <1>6, Zenon
  <2>3. Becomes([e EXCEPT !.proc[p] = [e.proc[p] EXCEPT !.st = "gone", !.heaps = FALSE],
                       !.mem = [m \in Mems |-> IF e.mem[m].p = p
                                  THEN DropHandles(e.mem[m], FALSE) ELSE e.mem[m]]])
    BY <2>2, Zenon DEF PVRSRVDisconnect
  <2> QED BY <1>11, <2>1, <2>3, Zenon
<1>13. chain' = n /\ load' = load /\ faults' = faults
  BY <1>2 DEF PVRSRVDisconnect
<1>14. /\ Good(t, n) /\ (Owned(s) => Owned(t)) /\ t.mem = g
       /\ t.proc = [u.proc EXCEPT ![p] = DeadProc]
  <2>1. Good(s, n) /\ n \in Procs \cup {Nobody} /\ n # p
    BY <1>4
  <2>2. Core(u, n) /\ (Owned(s) => Owned(u)) /\ Swept(s, u, ItemsOf(s, p))
    BY <1>7
  <2> QED BY <1>9, <1>10, <2>1, <2>2, BuryGood
<1>15. GInv'
  <2>1. Good(t, chain') /\ chain' \in Procs \cup {Nobody} /\ load' \in Loads
        /\ faults' \in 0..load'.faults
    BY <1>1, <1>4, <1>13, <1>14
  <2>2. faults' = 0 => Owned(t)
    BY <1>1, <1>4, <1>13, <1>14
  <2> QED BY <1>12, <2>1, <2>2, Settles
<1>16. LeavesNothing(s, t, p) /\ \A q \in Procs \ {p} : t.proc[q].st = s.proc[q].st
  <2>1. Core(u, n) /\ Swept(s, u, ItemsOf(s, p))
    BY <1>7
  <2> QED BY <1>5, <1>9, <1>10, <2>1, BuryLeaves
<1>17. Now' = t
  <2>1. t \in States
    BY <1>14 DEF Good, Core, Balanced
  <2> QED BY <1>12, <2>1, Lands
<1>18. LeavesNothing(Now, t, p)
  <2>1. \A m \in Mems : Same(s.mem[m], Now.mem[m])
    BY <1>4 DEF Alike
  <2> QED BY <1>16, <2>1 DEF LeavesNothing, Same
<1>19. \A q \in Procs \ {p} : proc'[q].st = proc[q].st
  <2>1. proc' = t.proc
    BY <1>12 DEF Becomes
  <2> QED BY <1>4, <1>16, <2>1
<1> QED BY <1>15, <1>17, <1>18, <1>19

-----------------------------------------------------------------------------
(* What the invariant says of the variables.                               *)
LEMMA SameSets ==
  ASSUME NEW m
  PROVE  /\ MapsOf(Now, m) = Maps(m) /\ BuffersOf(Now, m) = Buffers(m)
         /\ Users(Now, m) = {d \in LiveMems : mem[d].kind = "wrap" /\ mem[d].sync = m}
         /\ \A d \in Mems : Live(Now, d) <=> d \in LiveMems
<1>1. Now.mem = mem
  BY DEF Now
<1>2. \A d \in Mems : Live(Now, d) <=> d \in LiveMems
  BY <1>1 DEF Live, LiveMems
<1>3. LiveMems \subseteq Mems
  BY DEF LiveMems
<1>4. \A d : d \in MapsOf(Now, m) <=> d \in Maps(m)
  BY <1>1, <1>2, <1>3 DEF MapsOf, Maps
<1>5. \A d : d \in Users(Now, m) <=>
             d \in {n \in LiveMems : mem[n].kind = "wrap" /\ mem[n].sync = m}
  BY <1>1, <1>2, <1>3 DEF Users
<1>6. \A d : d \in InContext(Now, m) <=> d \in {n \in LiveMems : mem[n].ctx = m}
  BY <1>1, <1>2, <1>3 DEF InContext
<1>7. InContext(Now, m) = {n \in LiveMems : mem[n].ctx = m}
  BY <1>6, Zenon
<1>8. BuffersOf(Now, m) = Buffers(m)
  BY <1>7, Zenon DEF BuffersOf, Buffers
<1>9. MapsOf(Now, m) = Maps(m)
  BY <1>4, Zenon
<1>10. Users(Now, m) = {d \in LiveMems : mem[d].kind = "wrap" /\ mem[d].sync = m}
  BY <1>5, Zenon
<1> QED BY <1>2, <1>8, <1>9, <1>10

(* The synchronisation info of a wrap is the one of its address.           *)
LEMMA WrapSync ==
  ASSUME NEW s, TableExact(s), WrapsShare(s), Shapes(s), NEW m \in Mems, Live(s, m),
         s.mem[m].kind = "wrap"
  PROVE  s.sync[s.mem[m].sync].live /\ s.syncTable[s.sync[s.mem[m].sync].addr] = s.mem[m].sync
<1>1. PICK a \in Addrs : s.syncTable[a] = s.mem[m].sync
  BY DEF WrapsShare
<1>2. s.mem[m].sync \in Mems
  BY DEF Shapes, Shape
<1>3. s.syncTable[a] # NoSync
  BY <1>1, <1>2 DEF NoSync
<1>4. s.sync[s.syncTable[a]].live /\ s.sync[s.syncTable[a]].addr = a
  BY <1>3, Zenon DEF TableExact
<1> QED BY <1>1, <1>4

(* The invariant gives the types of the variables,                         *)
LEMMA Typed ==
  ASSUME GInv
  PROVE  TypeOK
<1>1. Now \in States /\ chain \in Procs \cup {Nobody} /\ faults \in 0..load.faults
  BY Unfold
<1>2. /\ proc \in [Procs -> ProcType] /\ mem \in [Mems -> MemType]
      /\ sync \in [Mems \cup {Disp} -> SyncType] /\ syncTable \in [Addrs -> Mems \cup {NoSync}]
      /\ exports \subseteq Mems /\ kref \in Nat
  BY <1>1, StateFields DEF Now
<1>3. \A m \in Mems : /\ mem[m].st \in {"unused", "live", "freed"} /\ mem[m].kind \in Kinds
                      /\ mem[m].ref \in Nat
  BY <1>2 DEF MemType
<1> QED BY <1>1, <1>2, <1>3 DEF TypeOK, ProcType, ContextType, SyncType

(* The references of a memory info are those of its mappings and, for one  *)
(* that is somebody's own, the owner's.                                    *)
LEMMA RefsCounted ==
  ASSUME GInv, NEW m \in LiveMems
  PROVE  LET maps == Cardinality(Maps(m))
         IN  CASE mem[m].kind \in {"map", "dc", "sys"} -> mem[m].ref = maps
               [] mem[m].kind = "wrap" \/ (mem[m].kind = "alloc" /\ mem[m].item) -> mem[m].ref = 1 + maps
               [] OTHER -> mem[m].ref \in {maps, 1 + maps}
<1> DEFINE maps == Cardinality(Maps(m))
<1>1. m \in Mems /\ Live(Now, m) /\ MapsOf(Now, m) = Maps(m)
  BY SameSets DEF LiveMems
<1>2. Now.mem = mem /\ Now \in States /\ Rest(Now, chain)
  BY Unfold
<1>3. mem[m].kind \in Kinds /\ mem[m].ref \in Nat /\ maps \in Nat
  <2>1. mem \in [Mems -> MemType]
    BY <1>2, StateFields
  <2>2. maps \in Nat
    BY <1>1, MapsFinite
  <2> QED BY <1>1, <2>1, <2>2 DEF MemType
<1>4. RefExact(Now, m) /\ Extra(Now, m) = mem[m].ref - maps
  BY <1>1, <1>2 DEF Rest, Refs, Extra
<1> HIDE DEF maps
<1>5. /\ mem[m].kind \in {"map", "dc", "sys"} => mem[m].ref = maps
      /\ mem[m].kind = "wrap" => mem[m].ref = 1 + maps
      /\ mem[m].kind = "alloc" => mem[m].ref = 1 + maps \/ (mem[m].ref = maps /\ ~mem[m].item)
  BY <1>2, <1>3, <1>4 DEF RefExact
<1>6. CASE mem[m].kind \in {"map", "dc", "sys"}
  BY <1>5, <1>6 DEF maps
<1>7. CASE mem[m].kind = "wrap"
  BY <1>5, <1>7 DEF maps
<1>8. CASE mem[m].kind = "alloc"
  BY <1>5, <1>8 DEF maps
<1> QED BY <1>3, <1>6, <1>7, <1>8 DEF Kinds

(* the exact counts,                                                       *)
LEMMA Counted ==
  ASSUME GInv
  PROVE  CountsExact
<1>1. /\ Now.proc = proc /\ Now.mem = mem /\ Now.sync = sync /\ Now.syncTable = syncTable
      /\ Now.kref = kref /\ Balanced(Now) /\ Rest(Now, chain) /\ Now \in States
  BY Unfold
<1>2. ASSUME NEW p \in Procs, proc[p].ctx.live
      PROVE  /\ proc[p].ctx.ref = proc[p].ctx.open + proc[p].ctx.lost + Cardinality(Buffers(p))
             /\ proc[p].ctx.ref > 0
  <2>1. ContextExact(Now, p)
    BY <1>1 DEF Balanced, ContextsExact
  <2>2. BuffersOf(Now, p) = Buffers(p)
    BY SameSets
  <2> QED BY <1>1, <1>2, <2>1, <2>2 DEF ContextExact
<1>3. kref = 1 + Cardinality({y \in DOMAIN sync : sync[y].live}) + Cardinality(Buffers(Kernel))
  <2>1. DOMAIN sync = Mems \cup {Disp}
    BY <1>1, StateFields
  <2>2. LiveSyncs(Now) = {y \in DOMAIN sync : sync[y].live}
    BY <1>1, <2>1, Zenon DEF LiveSyncs
  <2>3. BuffersOf(Now, Kernel) = Buffers(Kernel)
    BY SameSets
  <2> QED BY <1>1, <2>2, <2>3, Zenon DEF Balanced, KernelExact
<1>4. ASSUME NEW a \in Addrs, syncTable[a] # NoSync
      PROVE  LET y == syncTable[a]
                 users == {m \in LiveMems : mem[m].kind = "wrap" /\ mem[m].sync = y}
             IN  sync[y].live /\ sync[y].addr = a /\ sync[y].ref = Cardinality(users)
  <2>1. PICK y : y = syncTable[a]
    OBVIOUS
  <2>2. sync[y].live /\ sync[y].addr = a /\ sync[y].ref = Cardinality(Users(Now, y))
    BY <1>1, <1>4, <2>1, Zenon DEF Rest, TableExact
  <2>3. Users(Now, y) = {m \in LiveMems : mem[m].kind = "wrap" /\ mem[m].sync = y}
    BY SameSets
  <2> QED BY <2>1, <2>2, <2>3, Zenon
<1>5. ASSUME NEW m \in LiveMems, mem[m].kind = "wrap"
      PROVE  syncTable[sync[mem[m].sync].addr] = mem[m].sync
  <2>1. m \in Mems /\ Live(Now, m) /\ Now.mem[m].kind = "wrap"
    BY <1>1, <1>5, SameSets DEF LiveMems
  <2>2. TableExact(Now) /\ WrapsShare(Now) /\ Shapes(Now)
    BY <1>1 DEF Rest
  <2>3. Now.syncTable[Now.sync[Now.mem[m].sync].addr] = Now.mem[m].sync
    BY <2>1, <2>2, WrapSync
  <2> QED BY <1>1, <2>3
<1> QED BY <1>2, <1>3, <1>4, <1>5, Typed, RefsCounted, Zenon DEF CountsExact

(* The synchronisation info of live memory exists, but for that of device  *)
(* class memory whose swap chain is gone, and of a mapping of what is not  *)
(* an allocation.                                                          *)
LEMMA SyncOfLive ==
  ASSUME GInv, NEW m \in Mems, Live(Now, m), mem[m].kind = "dc" => chain # Nobody,
         mem[m].kind = "map" => mem[mem[m].src].kind = "alloc"
  PROVE  SyncLive(m) /\ (mem[m].kind = "map" => mem[mem[m].src].st = "live")
<1>1. /\ Now.mem = mem /\ Now.sync = sync /\ Now.syncTable = syncTable
      /\ Rest(Now, chain) /\ Now \in States
  BY Unfold
<1>2. /\ TableExact(Now) /\ WrapsShare(Now) /\ Shapes(Now) /\ SyncsLive(Now)
      /\ ChainSync(Now, chain) /\ Shape(Now, m)
  BY <1>1 DEF Rest, Shapes
<1>3. mem[m].kind \in Kinds
  <2>1. mem \in [Mems -> MemType]
    BY <1>1, StateFields
  <2> QED BY <2>1 DEF MemType
<1>4. CASE mem[m].kind = "alloc"
  <2>1. mem[m].sync \in {m, NoSync}
    BY <1>1, <1>2, <1>4 DEF Shape
  <2>2. mem[m].sync = m => sync[m].live
    BY <1>1, <1>2, <1>4 DEF SyncsLive
  <2> QED BY <1>4, <2>1, <2>2 DEF SyncLive
<1>5. CASE mem[m].kind = "wrap"
  <2>1. Now.mem[m].kind = "wrap"
    BY <1>1, <1>5
  <2>2. Now.sync[Now.mem[m].sync].live
    BY <1>2, <2>1, WrapSync
  <2> QED BY <1>1, <1>5, <2>2 DEF SyncLive
<1>6. CASE mem[m].kind = "map"
  <2>1. PICK n : n = mem[m].src
    OBVIOUS
  <2>2. n \in Mems /\ Live(Now, n) /\ mem[n].kind = "alloc" /\ mem[m].sync = mem[n].sync
    BY <1>1, <1>2, <1>6, <2>1 DEF Shape
  <2>3. mem[n].sync \in {n, NoSync}
    BY <1>1, <1>2, <2>2 DEF Shapes, Shape
  <2>4. mem[n].sync = n => sync[n].live
    BY <1>1, <1>2, <2>2 DEF SyncsLive
  <2>5. mem[n].st = "live"
    BY <1>1, <2>2 DEF Live
  <2> QED BY <1>6, <2>1, <2>2, <2>3, <2>4, <2>5 DEF SyncLive
<1>7. CASE mem[m].kind = "dc"
  <2>1. mem[m].sync = Disp /\ chain # Nobody
    BY <1>1, <1>2, <1>7 DEF Shape
  <2>2. sync[Disp].live
    BY <1>1, <1>2, <2>1 DEF ChainSync
  <2> QED BY <1>7, <2>1, <2>2 DEF SyncLive
<1>8. CASE mem[m].kind = "sys"
  BY <1>1, <1>2, <1>8 DEF Shape, SyncLive
<1> QED BY <1>3, <1>4, <1>5, <1>6, <1>7, <1>8 DEF Kinds

(* the life of all that handles reach,                                     *)
LEMMA Reached ==
  ASSUME GInv
  PROVE  HandlesLive
<1>1. /\ Now.proc = proc /\ Now.mem = mem /\ Now.sync = sync /\ Now.exports = exports
      /\ Balanced(Now) /\ Rest(Now, chain) /\ Now \in States /\ Handles(Now, chain)
  BY Unfold
<1>2. Shapes(Now) /\ ExportsLive(Now) /\ exports \subseteq Mems
  BY <1>1, StateFields DEF Rest
<1>3. ASSUME NEW m \in Mems, mem[m].h \/ (mem[m].refh /\ mem[m].kind # "dc")
      PROVE  /\ mem[m].st = "live"
             /\ mem[m].kind # "sys" => ContextLive(mem[m].ctx)
             /\ mem[m].kind # "map" => SyncLive(m)
             /\ mem[m].kind = "map" /\ mem[mem[m].src].kind = "alloc" =>
                   mem[mem[m].src].st = "live" /\ SyncLive(m)
  <2>1. /\ Live(Now, m) /\ proc[mem[m].p].st = "up"
        /\ mem[m].kind = "dc" => chain = mem[m].p
    BY <1>1, <1>3 DEF Handles
  <2>2. Shape(Now, m)
    BY <1>2, <2>1 DEF Shapes
  <2>3. mem[m].p \in Procs
    BY <1>1, <2>2 DEF Shape
  <2>4. mem[m].kind = "dc" => chain # Nobody
    BY <2>1, <2>3
  <2>5. mem[m].kind # "sys" => ContextLive(mem[m].ctx)
    <3> SUFFICES ASSUME mem[m].kind # "sys", mem[m].ctx # Kernel
                 PROVE  proc[mem[m].ctx].ctx.live
      BY DEF ContextLive
    <3>1. mem[m].kind \in Kinds
      <4>1. mem \in [Mems -> MemType]
        BY <1>1, StateFields
      <4> QED BY <4>1 DEF MemType
    <3>2. mem[m].ctx = mem[m].p
      BY <1>1, <2>2, <3>1 DEF Shape, Kinds
    <3>3. PICK p \in Procs : p = mem[m].p
      BY <2>3
    <3>4. m \in InContext(Now, p)
      BY <1>1, <2>1, <3>2, <3>3 DEF InContext
    <3>5. ContextExact(Now, p)
      BY <1>1 DEF Balanced, ContextsExact
    <3> QED BY <1>1, <2>1, <3>2, <3>3, <3>4, <3>5 DEF ContextExact
  <2>6. mem[m].kind # "map" => SyncLive(m)
    BY <2>1, <2>4, SyncOfLive
  <2>7. mem[m].kind = "map" /\ mem[mem[m].src].kind = "alloc" =>
           mem[mem[m].src].st = "live" /\ SyncLive(m)
    BY <2>1, <2>4, SyncOfLive
  <2>8. mem[m].st = "live"
    BY <1>1, <2>1 DEF Live
  <2> QED BY <2>5, <2>6, <2>7, <2>8
<1>4. ASSUME NEW m \in exports, mem[m].kind = "alloc"
      PROVE  mem[m].st = "live" /\ SyncLive(m)
  <2>1. m \in Mems /\ Live(Now, m)
    BY <1>1, <1>2, <1>4 DEF ExportsLive
  <2>2. SyncLive(m)
    BY <1>4, <2>1, SyncOfLive
  <2> QED BY <1>1, <2>1, <2>2 DEF Live
<1> QED BY <1>3, <1>4 DEF HandlesLive

(* and the owners of the synchronisation infos.                            *)
LEMMA OwnerThere ==
  ASSUME GInv
  PROVE  SyncsOwned
<1> SUFFICES ASSUME faults = 0, NEW y \in DOMAIN sync, sync[y].live
             PROVE  IF y = Disp THEN chain # Nobody
                    ELSE \E m \in LiveMems : mem[m].sync = y /\ (m = y \/ mem[m].kind = "wrap")
  BY DEF SyncsOwned
<1>1. /\ Now.mem = mem /\ Now.sync = sync /\ Now.syncTable = syncTable
      /\ Rest(Now, chain) /\ Now \in States /\ Owned(Now)
  BY Unfold
<1>2. y \in Mems \cup {Disp}
  BY <1>1, StateFields
<1>3. CASE y = Disp
  BY <1>1, <1>3 DEF Rest, ChainSync
<1>4. CASE y # Disp
  <2>1. y \in Mems
    BY <1>2, <1>4
  <2>2. CASE Live(Now, y) /\ mem[y].sync = y
    <3>1. y \in LiveMems
      BY <2>1, <2>2, SameSets
    <3> QED BY <1>4, <2>2, <3>1
  <2>3. CASE \E a \in Addrs : syncTable[a] = y
    <3>1. PICK a \in Addrs : syncTable[a] = y
      BY <2>3
    <3>2. syncTable[a] # NoSync
      BY <2>1, <3>1 DEF NoSync
    <3>3. sync[y].ref = Cardinality(Users(Now, y)) /\ sync[y].ref > 0
      BY <1>1, <3>1, <3>2, Zenon DEF Rest, TableExact
    <3>4. Users(Now, y) # {}
      <4>1. Cardinality({}) = 0
        BY FS_EmptySet
      <4>2. Users(Now, y) = {} => FALSE
        BY <3>3, <4>1
      <4> QED BY <4>2
    <3>5. PICK m : m \in Users(Now, y)
      BY <3>4
    <3>6. m \in LiveMems /\ mem[m].kind = "wrap" /\ mem[m].sync = y
      BY <3>5, SameSets
    <3> QED BY <1>4, <3>6
  <2> QED BY <1>1, <2>1, <2>2, <2>3 DEF Owned
<1> QED BY <1>3, <1>4

-----------------------------------------------------------------------------
(* It holds in the initial states.                                         *)
LEMMA Starts ==
  ASSUME Init
  PROVE  GInv
<1>1. /\ Now.proc = [p \in Procs |-> [st |-> "new", heaps |-> FALSE, ctx |-> NoContext]]
      /\ Now.mem = [m \in Mems |-> Unused] /\ Now.sync = [y \in Mems \cup {Disp} |-> NoSyncInfo]
      /\ Now.syncTable = [a \in Addrs |-> NoSync] /\ Now.exports = {} /\ Now.kref = 1
      /\ chain = Nobody /\ load \in Loads /\ faults = 0
  BY DEF Init, Now
<1>2. /\ Unused \in MemType /\ NoContext \in ContextType /\ NoSyncInfo \in SyncType
      /\ NoSync \in Mems \cup {NoSync}
  BY DEF Unused, MemType, NoContext, ContextType, NoSyncInfo, SyncType, Kinds, Contexts
<1>3. Now \in States
  <2>1. Now.proc \in [Procs -> ProcType]
    BY <1>1, <1>2 DEF ProcType
  <2>2. /\ Now.mem \in [Mems -> MemType] /\ Now.sync \in [Mems \cup {Disp} -> SyncType]
        /\ Now.syncTable \in [Addrs -> Mems \cup {NoSync}] /\ Now.exports \subseteq Mems
        /\ Now.kref \in Nat
    BY <1>1, <1>2
  <2>3. Now = [proc |-> Now.proc, mem |-> Now.mem, sync |-> Now.sync,
               syncTable |-> Now.syncTable, exports |-> Now.exports, kref |-> Now.kref]
    BY DEF Now
  <2> QED BY <2>1, <2>2, <2>3 DEF States
<1>4. \A m \in Mems : /\ Now.mem[m].st = "unused" /\ ~Live(Now, m)
                      /\ ~Now.mem[m].h /\ ~Now.mem[m].refh
  BY <1>1 DEF Unused, Live
<1>5. \A y \in Mems \cup {Disp} : ~Now.sync[y].live
  BY <1>1 DEF NoSyncInfo
<1>6. \A c : InContext(Now, c) = {} /\ BuffersOf(Now, c) = {}
  <2> TAKE c
  <2>1. InContext(Now, c) = {}
    BY <1>4 DEF InContext
  <2> QED BY <2>1 DEF BuffersOf
<1>7. LiveSyncs(Now) = {}
  BY <1>5 DEF LiveSyncs
<1>8. Cardinality({}) = 0
  BY FS_EmptySet
<1>9. Balanced(Now)
  <2>1. ASSUME NEW p \in Procs PROVE ContextExact(Now, p)
    <3>1. Now.proc[p].ctx = NoContext /\ Now.proc[p].st = "new"
      BY <1>1
    <3>2. NoContext.live = FALSE /\ NoContext.h = FALSE
      BY DEF NoContext
    <3> QED BY <1>6, <3>1, <3>2 DEF ContextExact
  <2>2. KernelExact(Now)
    <3>1. BuffersOf(Now, Kernel) = {}
      BY <1>6
    <3>2. Cardinality(BuffersOf(Now, Kernel)) = 0 /\ Cardinality(LiveSyncs(Now)) = 0
      BY <1>7, <1>8, <3>1
    <3> QED BY <1>1, <3>2 DEF KernelExact
  <2> QED BY <1>3, <2>1, <2>2 DEF Balanced, ContextsExact
<1>10. Rest(Now, chain)
  <2>1. Shapes(Now) /\ Refs(Now) /\ WrapsShare(Now)
    BY <1>4 DEF Shapes, Refs, WrapsShare
  <2>2. ExportsLive(Now)
    BY <1>1 DEF ExportsLive
  <2>3. TableExact(Now)
    <3>1. \A a \in Addrs : Now.syncTable[a] = NoSync
      BY <1>1
    <3> QED BY <3>1, Zenon DEF TableExact
  <2>4. SyncsLive(Now)
    BY <1>4, <1>5 DEF SyncsLive
  <2>5. ChainSync(Now, chain)
    BY <1>1, <1>5 DEF ChainSync
  <2> QED BY <2>1, <2>2, <2>3, <2>4, <2>5 DEF Rest
<1>11. Handles(Now, chain)
  BY <1>4 DEF Handles
<1>12. Owned(Now)
  BY <1>5 DEF Owned
<1>13. faults \in 0..load.faults
  <2>1. load.faults \in Nat
    BY <1>1, LoadsAssumption
  <2> QED BY <1>1, <2>1
<1> QED BY <1>1, <1>9, <1>10, <1>11, <1>12, <1>13 DEF GInv, Good, Core

(* Every step keeps the invariant, and only its own death ends a process,  *)
(* which then leaves nothing behind but what others have mapped.           *)
LEMMA StepKeeps ==
  ASSUME GInv, Next
  PROVE  GInv' /\ \A p \in Procs : proc[p].st = "up" /\ proc'[p].st = "gone" =>
                                      LeavesNothing(Now, Now', p)
<1>1. PICK p \in Procs :
      \/ PVRSRVConnect(p)
      \/ PVRSRVDisconnect(p)
      \/ \E f \in {"none", "commit"} : PVRSRVCreateDeviceMemContextBW(p, f)
      \/ PVRSRVDestroyDeviceMemContextBW(p)
      \/ PVRSRVGetDeviceMemHeapInfoBW(p)
      \/ CreateSwapChain(p)
      \/ DestroySwapChain(p)
      \/ \E m \in Mems :
           \/ PVRSRVFreeDeviceMemBW(p, m)
           \/ PVRSRVExportDeviceMemBW(p, m)
           \/ PVRSRVUnmapDeviceMemoryBW(p, m)
           \/ PVRSRVUnmapDeviceClassMemoryBW(p, m)
           \/ PVRSRVUnwrapExtMemoryBW(p, m)
           \/ PVRSRVFreeSharedSysMemoryBW(p, m)
           \/ PVRSRVMapMemInfoMemBW(p, m)
           \/ \E f \in {"none", "res", "commit"} :
                \/ \E r \in Requests : PVRSRVAllocDeviceMemBW(p, m, r, f)
                \/ \E src \in Mems, heap \in {"own", "shared"} :
                     PVRSRVMapDeviceMemoryBW(p, src, m, heap, f)
                \/ PVRSRVMapDeviceClassMemoryBW(p, m, f)
                \/ PVRSRVAllocSharedSysMemoryBW(p, m, f)
           \/ \E a \in Addrs, contig \in BOOLEAN, f \in {"none", "res", "commit", "hash"} :
                PVRSRVWrapExtMemoryBW(p, m, a, contig, f)
  BY DEF Next
<1>2. CASE PVRSRVDisconnect(p)
  <2>1. /\ GInv' /\ LeavesNothing(Now, Now', p)
        /\ \A q \in Procs \ {p} : proc'[q].st = proc[q].st
    BY <1>2, DisconnectAction
  <2>2. \A q \in Procs : proc[q].st = "up" /\ proc'[q].st = "gone" => q = p
    BY <2>1
  <2> QED BY <2>1, <2>2
<1>3. SUFFICES ASSUME ~PVRSRVDisconnect(p) PROVE GInv' /\ Steady
  <2>1. Steady => \A q \in Procs : ~(proc[q].st = "up" /\ proc'[q].st = "gone")
    BY DEF Steady
  <2> QED BY <1>2, <1>3, <2>1
<1>4. CASE PVRSRVConnect(p)
  BY <1>4, ConnectAction
<1>5. ASSUME NEW f \in {"none", "commit"}, PVRSRVCreateDeviceMemContextBW(p, f)
      PROVE  GInv' /\ Steady
  BY <1>5, CreateContextAction
<1>6. CASE PVRSRVDestroyDeviceMemContextBW(p)
  BY <1>6, DestroyContextAction
<1>7. CASE PVRSRVGetDeviceMemHeapInfoBW(p)
  BY <1>7, GetHeapInfoAction
<1>8. CASE CreateSwapChain(p)
  BY <1>8, CreateSwapChainAction
<1>9. CASE DestroySwapChain(p)
  BY <1>9, DestroySwapChainAction
<1>10. ASSUME NEW m \in Mems,
              \/ PVRSRVFreeDeviceMemBW(p, m) \/ PVRSRVUnmapDeviceMemoryBW(p, m)
              \/ PVRSRVUnmapDeviceClassMemoryBW(p, m) \/ PVRSRVUnwrapExtMemoryBW(p, m)
              \/ PVRSRVFreeSharedSysMemoryBW(p, m)
       PROVE  GInv' /\ Steady
  BY <1>10, FreeActions
<1>11. ASSUME NEW m \in Mems, PVRSRVExportDeviceMemBW(p, m)
       PROVE  GInv' /\ Steady
  BY <1>11, ExportAction
<1>12. ASSUME NEW m \in Mems, PVRSRVMapMemInfoMemBW(p, m)
       PROVE  GInv' /\ Steady
  BY <1>12, MapMemInfoMemAction
<1>13. ASSUME NEW m \in Mems, NEW f, NEW r \in Requests, PVRSRVAllocDeviceMemBW(p, m, r, f)
       PROVE  GInv' /\ Steady
  BY <1>13, AllocAction
<1>14. ASSUME NEW m \in Mems, NEW f, NEW src \in Mems, NEW heap,
              PVRSRVMapDeviceMemoryBW(p, src, m, heap, f)
       PROVE  GInv' /\ Steady
  BY <1>14, MapAction
<1>15. ASSUME NEW m \in Mems, NEW f, PVRSRVMapDeviceClassMemoryBW(p, m, f)
       PROVE  GInv' /\ Steady
  BY <1>15, DcAction
<1>16. ASSUME NEW m \in Mems, NEW f, PVRSRVAllocSharedSysMemoryBW(p, m, f)
       PROVE  GInv' /\ Steady
  BY <1>16, SysAction
<1>17. ASSUME NEW m \in Mems, NEW a \in Addrs, NEW contig, NEW f,
              PVRSRVWrapExtMemoryBW(p, m, a, contig, f)
       PROVE  GInv' /\ Steady
  BY <1>17, WrapAction
<1> QED BY <1>1, <1>3, <1>4, <1>5, <1>6, <1>7, <1>8, <1>9, <1>10, <1>11, <1>12, <1>13,
           <1>14, <1>15, <1>16, <1>17, Zenon

(* A step that changes nothing keeps it.                                   *)
LEMMA Stutters ==
  ASSUME GInv, UNCHANGED vars
  PROVE  GInv'
<1>1. Now' = Now /\ chain' = chain /\ load' = load /\ faults' = faults
  BY DEF vars, Now
<1> QED BY <1>1, Zenon DEF GInv

(* In every state the program can be in: the type of the state, the shape  *)
(* of every live memory info by its kind, exact counts, live               *)
(* synchronisation infos and handles only to what is there.                *)
THEOREM Invariant == Spec => []GInv
<1>1. Init => GInv
  BY Starts
<1>2. GInv /\ [Next]_vars => GInv'
  BY StepKeeps, Stutters
<1> QED BY <1>1, <1>2, PTL DEF Spec

(* For any number of processes, memory infos and addresses: ui32RefCount   *)
(* of a memory info is exactly its owner and its mappings, that of a       *)
(* context its opens, its lost opens and its buffers, that of the kernel's *)
(* context its buffers and synchronisation infos, and the refcount of a    *)
(* shared synchronisation info its wraps (devicemem.c, buffer_manager.c).  *)
THEOREM KeepsCounts == Spec => []CountsExact
<1>1. GInv => CountsExact
  BY Counted
<1> QED BY <1>1, Invariant, PTL

(* What a process can name by a handle, and what the kernel's handle base  *)
(* exports, exists with its context and its synchronisation info, whoever  *)
(* freed, unmapped or died before.                                         *)
THEOREM KeepsHandlesLive == Spec => []HandlesLive
<1>1. GInv => HandlesLive
  BY Reached
<1> QED BY <1>1, Invariant, PTL

(* While no call has failed half way, every synchronisation info has       *)
(* somebody who will free it.                                              *)
THEOREM KeepsSyncsOwned == Spec => []SyncsOwned
<1>1. GInv => SyncsOwned
  BY OwnerThere
<1> QED BY <1>1, Invariant, PTL

(* A process that ends leaves nothing of its registered device memory      *)
(* behind but what somebody else has mapped, or what a mapping of its own  *)
(* that was never registered keeps (PVRSRVResManDisconnect).               *)
THEOREM DiesClean == Spec => CleanDeath
<1>1. GInv /\ [Next]_vars =>
        [\A p \in Procs : proc[p].st = "up" /\ proc'[p].st = "gone" =>
          /\ ~proc'[p].ctx.live
          /\ \A m \in Mems : mem[m].p = p /\ mem[m].item /\ mem'[m].st = "live" =>
                \/ mem[m].kind = "sys"
                \/ \E d \in Mems : /\ mem'[d].st = "live" /\ mem[d].src = m
                                   /\ mem[d].p # p \/ ~mem[d].item]_vars
  <2> SUFFICES ASSUME GInv, Next
               PROVE  \A p \in Procs : proc[p].st = "up" /\ proc'[p].st = "gone" =>
          /\ ~proc'[p].ctx.live
          /\ \A m \in Mems : mem[m].p = p /\ mem[m].item /\ mem'[m].st = "live" =>
                \/ mem[m].kind = "sys"
                \/ \E d \in Mems : /\ mem'[d].st = "live" /\ mem[d].src = m
                                   /\ mem[d].p # p \/ ~mem[d].item
    OBVIOUS
  <2>1. \A p \in Procs : proc[p].st = "up" /\ proc'[p].st = "gone" => LeavesNothing(Now, Now', p)
    BY StepKeeps
  <2>2. Now.proc = proc /\ Now.mem = mem /\ Now'.proc = proc' /\ Now'.mem = mem'
    BY DEF Now
  <2> QED BY <2>1, <2>2 DEF LeavesNothing
<1> QED BY <1>1, Invariant, PTL DEF Spec, CleanDeath

=============================================================================
