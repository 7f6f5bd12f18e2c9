--------------------------- MODULE KeystoreProofs ---------------------------
(***************************************************************************)
(* Proofs about Keystore where the archive commands are run while the      *)
(* server is stopped: a key the user was told is his stays in one of the   *)
(* two files, and what was deleted or purged stays gone.                   *)
(*                                                                         *)
(* The argument: of what is owed, each key is in one file and in what the  *)
(* server holds of that file, so the server's next write keeps it; a call  *)
(* that takes a key out of one file has, when it does, put it in the other.*)
(***************************************************************************)
EXTENDS Keystore, FiniteSetTheorems, TLAPS

OneLeft(t) == DOMAIN t = {1} /\ t = <<t[1]>>
TwoLeft(t) == DOMAIN t = {1, 2} /\ t = <<t[1], t[2]>>

IsStore(f, s) == s \in Contents(f)

\* What each process holds of each file.
IsCache(c) == c = [p \in Procs |-> [f \in Files |-> c[p][f]]]

\* Every variable is a function.
Funs ==
  /\ disk = [f \in Files |-> disk[f]] /\ tmp = [f \in Files |-> tmp[f]]
  /\ IsCache(cache)
  /\ todo = [p \in Procs |-> todo[p]] /\ wrote = [p \in Procs |-> wrote[p]]
  /\ call = [p \in Procs |-> call[p]]

\* Every variable is of its kind; a call has two writes left at most.
Kinds ==
  /\ \A f \in Files : IsStore(f, disk[f])
  /\ \A p \in Procs, f \in Files : cache[p][f] # None => IsStore(f, cache[p][f])
  /\ \A p \in Procs : /\ wrote[p] \in BOOLEAN /\ call[p].keys \subseteq Keys
                     /\ (todo[p] = <<>> \/ OneLeft(todo[p]) \/ TwoLeft(todo[p]))
                     /\ \A i \in DOMAIN todo[p] : /\ todo[p][i].file \in Files
                                                  /\ IsStore(todo[p][i].file, todo[p][i].store)
  /\ up \in BOOLEAN /\ asks \in 0..MaxAsks
  /\ owed \subseteq Keys

\* No wallet of an archive was deleted after the last request.
Dated(bin, n) == \A k \in DOMAIN bin : bin[k].at <= n

Dates ==
  /\ Dated(disk["bin"], asks)
  /\ \A p \in Procs : /\ cache[p]["bin"] # None => Dated(cache[p]["bin"], asks)
                     /\ \A i \in DOMAIN todo[p] :
                          todo[p][i].file = "bin" => Dated(todo[p][i].store, asks)

\* A write that is to be renamed is in the cache, and nothing else is in its
\* temporary file.
Written ==
  \A p \in Procs : wrote[p] =>
    /\ cache[p][Target(p)] = todo[p][1].store
    /\ tmp[Target(p)] \in {None, todo[p][1].store}

\* One process at a time: a command runs beside no server, and a process that
\* does not run holds nothing.
Solo ==
  /\ call["server"].kind \in {"none", "add", "role", "remove"}
  /\ call["shell"].kind \in {"none", "restore", "purge"}
  /\ \A p \in Procs : Idle(p) => todo[p] = <<>> /\ ~wrote[p]
  /\ ~Idle("shell") => ~up
  /\ ~up => Idle("server") /\ \A f \in Files : cache["server"][f] = None
  /\ Idle("shell") => \A f \in Files : cache["shell"][f] = None

\* What the writes left of a server's call make of its caches.
ServerCalls ==
  LET live == cache["server"]["live"]
      bin == cache["server"]["bin"]
      c == call["server"]
      t == todo["server"]
  IN /\ c.kind \in {"add", "role"} =>
          /\ OneLeft(t) /\ t[1].file = "live" /\ live # None
          /\ c.keys \cup DOMAIN live \subseteq DOMAIN t[1].store
     /\ c.kind = "remove" =>
          /\ live # None /\ bin # None
          /\ \E k \in Keys :
               /\ c.keys = {k}
               /\ \/ /\ TwoLeft(t) /\ t[1].file = "bin" /\ t[2].file = "live"
                     /\ k \in DOMAIN t[1].store
                     /\ DOMAIN t[2].store = DOMAIN live \ {k}
                  \/ /\ OneLeft(t) /\ t[1].file = "live"
                     /\ k \in DOMAIN disk["bin"] /\ k \in DOMAIN bin
                     /\ DOMAIN t[1].store = DOMAIN live \ {k}

\* What the writes left of a command make of the files.
ShellCalls ==
  LET live == cache["shell"]["live"]
      bin == cache["shell"]["bin"]
      c == call["shell"]
      t == todo["shell"]
  IN /\ c.kind # "none" /\ t = <<>> =>
          /\ ~wrote["shell"] /\ bin = disk["bin"] /\ live \in {None, disk["live"]}
          /\ c.keys \subseteq DOMAIN disk["bin"]
     /\ c.kind # "none" => \E k \in Keys : c.keys = {k}
     /\ \A k \in Keys : c.kind = "restore" /\ c.keys = {k} /\ t # <<>> =>
          \/ /\ TwoLeft(t) /\ t[1].file = "live" /\ t[2].file = "bin"
             /\ DOMAIN t[1].store = DOMAIN disk["live"] \cup {k}
             /\ DOMAIN t[2].store = DOMAIN disk["bin"] \ {k}
          \/ /\ OneLeft(t) /\ t[1].file = "bin" /\ k \in DOMAIN disk["live"]
             /\ DOMAIN t[1].store = DOMAIN disk["bin"] \ {k}
     /\ \A k \in Keys : c.kind = "purge" /\ c.keys = {k} /\ t # <<>> =>
          /\ OneLeft(t) /\ t[1].file = "bin" /\ k \notin owed
          /\ DOMAIN t[1].store = DOMAIN disk["bin"] \ {k}

\* A key is in a file, and in what the server holds of it.
HeldIn(k, f) ==
  /\ k \in DOMAIN disk[f]
  /\ cache["server"][f] # None => k \in DOMAIN cache["server"][f]

OwedHeld == \A k \in owed : \E f \in Files : HeldIn(k, f)

\* Nothing that is or may yet be written brings a key back.
Gone ==
  /\ GoneStaysGone
  /\ \A p \in Procs :
       /\ cache[p]["live"] # None => out \cap DOMAIN cache[p]["live"] = {}
       /\ cache[p]["bin"] # None => dead \cap DOMAIN cache[p]["bin"] = {}
       /\ \A i \in DOMAIN todo[p] :
            /\ todo[p][i].file = "live" => out \cap DOMAIN todo[p][i].store = {}
            /\ todo[p][i].file = "bin" => dead \cap DOMAIN todo[p][i].store = {}

IInv ==
  Funs /\ Kinds /\ Dates /\ Written /\ Solo /\ ServerCalls /\ ShellCalls /\ OwedHeld /\ Gone
-----------------------------------------------------------------------------
(* What the operations on stores do to their domains *)

USE DEF Files, Procs, Contents

LEMMA LiveStore ==
  ASSUME NEW s
  PROVE  s \in LiveStores <=> DOMAIN s \subseteq Keys /\ s \in [DOMAIN s -> Roles]
BY DEF LiveStores

Wallet == [role : Roles, at : 0..MaxAsks]

LEMMA BinStore ==
  ASSUME NEW s
  PROVE  s \in BinStores <=> DOMAIN s \subseteq Keys /\ s \in [DOMAIN s -> Wallet]
BY DEF BinStores, Wallet

\* A wallet put into the live keystore, or given another role.
LEMMA WithIsLive ==
  ASSUME NEW s \in LiveStores, NEW k \in Keys, NEW r \in Roles
  PROVE  With(s, k, r) \in LiveStores /\ DOMAIN With(s, k, r) = DOMAIN s \cup {k}
<1>1. DOMAIN s \subseteq Keys /\ s \in [DOMAIN s -> Roles]
  BY LiveStore
<1>2. With(s, k, r) \in [DOMAIN s \cup {k} -> Roles]
  BY <1>1 DEF With
<1>3. DOMAIN With(s, k, r) = DOMAIN s \cup {k}
  BY DEF With
<1> QED
  BY <1>1, <1>2, <1>3, LiveStore

LEMMA WithoutIsLive ==
  ASSUME NEW s \in LiveStores, NEW k
  PROVE  Without(s, k) \in LiveStores /\ DOMAIN Without(s, k) = DOMAIN s \ {k}
<1>1. DOMAIN s \subseteq Keys /\ s \in [DOMAIN s -> Roles]
  BY LiveStore
<1>2. Without(s, k) \in [DOMAIN s \ {k} -> Roles]
  BY <1>1 DEF Without
<1>3. DOMAIN Without(s, k) = DOMAIN s \ {k}
  BY DEF Without
<1> QED
  BY <1>1, <1>2, <1>3, LiveStore

\* A part of an archive is an archive, dated as it was.
LEMMA PartIsBin ==
  ASSUME NEW n, NEW s \in BinStores, Dated(s, n), NEW S \in SUBSET DOMAIN s
  PROVE  Only(s, S) \in BinStores /\ Dated(Only(s, S), n) /\ DOMAIN Only(s, S) = S
<1>1. DOMAIN s \subseteq Keys /\ s \in [DOMAIN s -> Wallet]
  BY BinStore
<1>2. Only(s, S) \in [S -> Wallet] /\ DOMAIN Only(s, S) = S
  BY <1>1 DEF Only
<1>3. Dated(Only(s, S), n)
  BY <1>2 DEF Only, Dated
<1> QED
  BY <1>1, <1>2, <1>3, BinStore

LEMMA WithoutIsBin ==
  ASSUME NEW n, NEW s \in BinStores, Dated(s, n), NEW k
  PROVE  /\ Without(s, k) \in BinStores /\ Dated(Without(s, k), n)
         /\ DOMAIN Without(s, k) = DOMAIN s \ {k}
<1>1. Without(s, k) = Only(s, DOMAIN s \ {k})
  BY DEF Without, Only
<1> QED
  BY <1>1, PartIsBin

\* The wallet that remove() archives is the newest there, so it is not evicted.
LEMMA ArchivedIsBin ==
  ASSUME asks \in 0..MaxAsks, asks < MaxAsks,
         NEW s \in BinStores, Dated(s, asks), NEW k \in Keys, NEW r \in Roles
  PROVE  /\ Archived(s, k, r) \in BinStores /\ Dated(Archived(s, k, r), asks + 1)
         /\ k \in DOMAIN Archived(s, k, r)
         /\ DOMAIN Archived(s, k, r) \subseteq DOMAIN s \cup {k}
<1> DEFINE e == [role |-> r, at |-> asks + 1]
           grown == With(s, k, e)
<1>1. DOMAIN s \subseteq Keys /\ s \in [DOMAIN s -> Wallet]
  BY BinStore
<1>2. e \in Wallet /\ e.at = asks + 1
  BY KeystoreAssumption DEF Wallet
<1>3. DOMAIN grown = DOMAIN s \cup {k} /\ grown[k] = e
  BY DEF With
<1>4. \A j \in DOMAIN grown : grown[j] = IF j = k THEN e ELSE s[j]
  BY DEF With
<1>5. grown \in [DOMAIN grown -> Wallet]
  BY <1>1, <1>2, <1>3, <1>4 DEF With
<1>6. \A j \in DOMAIN s : s[j].at \in Nat /\ s[j].at <= asks
  BY <1>1 DEF Dated, Wallet
<1>7. Dated(grown, asks + 1)
  BY <1>2, <1>3, <1>4, <1>6 DEF Dated
<1>8. {j \in DOMAIN grown : grown[j].at > grown[k].at} = {}
  BY <1>2, <1>3, <1>4, <1>6
<1>9. k \in Newest(grown)
  <2>1. Cardinality({j \in DOMAIN grown : grown[j].at > grown[k].at}) = 0
    BY <1>8, FS_EmptySet
  <2>2. 0 < MaxArchived
    BY KeystoreAssumption
  <2> HIDE DEF grown
  <2> QED
    BY <1>3, <2>1, <2>2 DEF Newest
<1>10. grown \in BinStores
  BY <1>1, <1>3, <1>5, BinStore
<1>11. Newest(grown) \subseteq DOMAIN grown
  BY DEF Newest
<1>12. Archived(s, k, r) = Only(grown, Newest(grown))
  BY DEF Archived
<1> HIDE DEF grown
<1> QED
  BY <1>3, <1>7, <1>9, <1>10, <1>11, <1>12, PartIsBin

\* One entry of the caches changed leaves caches.
SetEntry(c, p, f, v) == [c EXCEPT ![p][f] = v]

LEMMA CacheEntry ==
  ASSUME NEW c, IsCache(c), NEW p \in Procs, NEW f \in Files, NEW v
  PROVE  /\ IsCache(SetEntry(c, p, f, v)) /\ SetEntry(c, p, f, v)[p][f] = v
         /\ \A q \in Procs, g \in Files :
              q # p \/ g # f => SetEntry(c, p, f, v)[q][g] = c[q][g]
<1> DEFINE d == SetEntry(c, p, f, v)
<1>1. \A q \in Procs : c[q] = [g \in Files |-> c[q][g]]
  BY DEF IsCache
<1>2. DOMAIN c = Procs
  BY DEF IsCache
<1>3. d = [q \in Procs |-> IF q = p THEN [c[p] EXCEPT ![f] = v] ELSE c[q]]
  BY <1>2 DEF SetEntry
<1>4. d[p] = [g \in Files |-> IF g = f THEN v ELSE c[p][g]]
  BY <1>1, <1>3
<1>5. \A q \in Procs \ {p} : d[q] = [g \in Files |-> c[q][g]]
  BY <1>1, <1>3
<1> QED
  BY <1>3, <1>4, <1>5 DEF IsCache, SetEntry

\* A date is not after a later request either.
LEMMA LaterDated ==
  ASSUME NEW n \in Nat, NEW s \in BinStores, Dated(s, n)
  PROVE  Dated(s, n + 1)
BY BinStore, KeystoreAssumption DEF Dated, Wallet

-----------------------------------------------------------------------------
(* Each action keeps the invariant, where commands run with the server     *)
(* stopped                                                                 *)

\* A file is read.
LEMMA LoadStep ==
  ASSUME IInv, NEW p \in Procs, NEW f \in Files, Load(p, f)
  PROVE  IInv'
<1>1. /\ IsCache(cache') /\ cache'[p][f] = disk[f]
      /\ \A q \in Procs, g \in Files : q # p \/ g # f => cache'[q][g] = cache[q][g]
  <2>1. IsCache(cache) /\ cache' = SetEntry(cache, p, f, disk[f])
    BY DEF Load, IInv, Funs, SetEntry
  <2> QED
    BY <2>1, CacheEntry
<1>2. cache[p][f] = None
  BY DEF Load, Ready
<1>3. UNCHANGED <<disk, tmp, todo, wrote, call, up, asks, owed, out, dead>>
  BY DEF Load, files, ghosts
<1>4. \/ p = "server" /\ up /\ Idle("server")
      \/ p = "shell" /\ ~Idle("shell")
  BY DEF Load, Idle
<1>5. Funs' /\ Kinds' /\ Dates'
  BY <1>1, <1>3 DEF IInv, Funs, Kinds, Dates
<1>6. Written'
  <2> SUFFICES ASSUME NEW q \in Procs, wrote[q]
               PROVE  /\ cache'[q][Target(q)] = todo[q][1].store
                      /\ tmp[Target(q)] \in {None, todo[q][1].store}
    BY <1>3 DEF Written, Target
  <2>1. todo[q] # <<>> /\ 1 \in DOMAIN todo[q]
    <3>1. ~Idle(q)
      BY DEF IInv, Solo
    <3>2. CASE q = "server"
      BY <3>1, <3>2 DEF IInv, Solo, ServerCalls, Idle, OneLeft, TwoLeft
    <3>3. CASE q = "shell"
      <4>1. todo[q] # <<>>
        BY <3>1, <3>3 DEF IInv, ShellCalls, Idle
      <4> QED
        BY <4>1 DEF IInv, Kinds, OneLeft, TwoLeft
    <3> QED
      BY <3>2, <3>3
  <2>2. Target(q) \in Files /\ IsStore(Target(q), todo[q][1].store)
    BY <2>1 DEF IInv, Kinds, Target
  <2>3. todo[q][1].store # None
    BY <2>2, NoneAssumption DEF IsStore
  <2> QED
    BY <1>1, <1>2, <2>2, <2>3 DEF IInv, Written
<1>7. Solo'
  BY <1>1, <1>3, <1>4 DEF IInv, Solo, Idle
<1>8. ServerCalls' /\ ShellCalls'
  BY <1>1, <1>2, <1>3, <1>4 DEF IInv, Solo, Idle, ServerCalls, ShellCalls
<1>9. OwedHeld' /\ Gone'
  BY <1>1, <1>3 DEF IInv, OwedHeld, HeldIn, Gone, GoneStaysGone
<1> QED
  BY <1>5, <1>6, <1>7, <1>8, <1>9 DEF IInv

\* A call of the server begins: its writes are ready, and nothing else moves.
LEMMA ServeStep ==
  ASSUME IInv, Commands = "stopped",
         NEW kind \in {"add", "role", "remove"}, NEW keys \in SUBSET Keys, NEW steps,
         Serve(kind, keys, steps),
         OneLeft(steps) \/ TwoLeft(steps),
         \A i \in DOMAIN steps :
           /\ steps[i].file \in Files /\ IsStore(steps[i].file, steps[i].store)
           /\ steps[i].file = "bin" => /\ Dated(steps[i].store, asks + 1)
                                       /\ dead' \cap DOMAIN steps[i].store = {}
           /\ steps[i].file = "live" => out' \cap DOMAIN steps[i].store = {},
         owed' = owed, out' \subseteq out, dead' \subseteq dead,
         ServerCalls'
  PROVE  IInv'
<1>1. /\ up /\ Idle("server") /\ Idle("shell")
      /\ asks \in Nat /\ asks < MaxAsks /\ asks' = asks + 1 /\ asks' \in 0..MaxAsks
  BY KeystoreAssumption DEF Serve, Ask, IInv, Kinds, Solo
<1>2. UNCHANGED <<disk, tmp, cache, wrote, up>>
  BY DEF Serve, files
<1>3. /\ call' = [call EXCEPT !["server"] = [kind |-> kind, keys |-> keys]]
      /\ todo' = [todo EXCEPT !["server"] = steps]
  BY DEF Serve
<1>4. Funs'
  BY <1>2, <1>3 DEF IInv, Funs
<1>5. /\ call'["server"].kind = kind /\ call'["server"].keys = keys
      /\ call'["shell"] = call["shell"]
      /\ todo'["server"] = steps /\ todo'["shell"] = <<>>
      /\ ~wrote["server"] /\ ~wrote["shell"]
  BY <1>1, <1>3 DEF IInv, Funs, Solo
<1>6. Kinds'
  BY <1>1, <1>2, <1>5 DEF IInv, Kinds
<1>7. Dates'
  <2>1. Dated(disk["bin"], asks + 1)
    BY <1>1, LaterDated DEF IInv, Dates, Kinds, IsStore
  <2>2. ASSUME NEW p \in Procs, cache[p]["bin"] # None
        PROVE  Dated(cache[p]["bin"], asks + 1)
    BY <1>1, <2>2, LaterDated DEF IInv, Dates, Kinds, IsStore
  <2> QED
    BY <1>1, <1>2, <1>5, <2>1, <2>2 DEF Dates
<1>8. Written'
  BY <1>2, <1>5 DEF Written
<1>9. Solo'
  BY <1>1, <1>2, <1>5 DEF IInv, Solo, Idle
<1>10. ShellCalls'
  BY <1>1, <1>5 DEF ShellCalls, Idle
<1>11. OwedHeld' /\ Gone'
  BY <1>2, <1>5 DEF IInv, OwedHeld, HeldIn, Gone, GoneStaysGone
<1> QED
  BY <1>4, <1>6, <1>7, <1>8, <1>9, <1>10, <1>11 DEF IInv

\* One more wallet, or one more role, in the live store, and a write of it.
LEMMA LiveWriteStep ==
  ASSUME IInv, Commands = "stopped",
         NEW kind \in {"add", "role"}, NEW keys \in SUBSET Keys, NEW store,
         Serve(kind, keys, <<Step("live", store)>>),
         cache["server"]["live"] # None,
         store \in LiveStores, keys \cup DOMAIN cache["server"]["live"] \subseteq DOMAIN store,
         out' \cap DOMAIN store = {},
         owed' = owed, out' \subseteq out, dead' \subseteq dead
  PROVE  IInv'
<1> DEFINE steps == <<Step("live", store)>>
<1>1. /\ OneLeft(steps) /\ DOMAIN steps = {1}
      /\ steps[1].file = "live" /\ steps[1].store = store
  BY DEF Step, OneLeft
<1>2. /\ call'["server"].kind = kind /\ call'["server"].keys = keys
      /\ todo'["server"] = steps /\ cache' = cache
  BY DEF Serve, IInv, Funs
<1>3. ServerCalls'
  BY <1>1, <1>2 DEF ServerCalls
<1> HIDE DEF steps
<1>4. Serve(kind, keys, steps)
  BY DEF steps
<1> QED
  BY <1>1, <1>3, <1>4, ServeStep DEF IsStore

LEMMA ImportKeyStep ==
  ASSUME IInv, Commands = "stopped", NEW k \in Keys, NEW role \in Roles, ImportKey(k, role)
  PROVE  IInv'
<1> DEFINE live == cache["server"]["live"]
<1>1. /\ live # None /\ Serve("add", {k}, <<Step("live", With(live, k, role))>>)
      /\ out' = out \ {k} /\ UNCHANGED <<owed, dead>>
  BY DEF ImportKey, Ready
<1>2. live \in LiveStores /\ out \cap DOMAIN live = {}
  BY <1>1 DEF IInv, Kinds, IsStore, Gone
<1>3. With(live, k, role) \in LiveStores /\ DOMAIN With(live, k, role) = DOMAIN live \cup {k}
  BY <1>2, WithIsLive
<1> QED
  BY <1>1, <1>2, <1>3, LiveWriteStep

LEMMA SetRoleStep ==
  ASSUME IInv, Commands = "stopped", NEW k \in Keys, NEW role \in Roles, SetRole(k, role)
  PROVE  IInv'
<1> DEFINE live == cache["server"]["live"]
<1>1. /\ live # None /\ Serve("role", {}, <<Step("live", With(live, k, role))>>)
      /\ k \in DOMAIN live /\ UNCHANGED <<owed, out, dead>>
  BY DEF SetRole, Ready, ghosts
<1>2. live \in LiveStores /\ out \cap DOMAIN live = {}
  BY <1>1 DEF IInv, Kinds, IsStore, Gone
<1>3. With(live, k, role) \in LiveStores /\ DOMAIN With(live, k, role) = DOMAIN live \cup {k}
  BY <1>2, WithIsLive
<1> QED
  BY <1>1, <1>2, <1>3, LiveWriteStep

\* Also where a second wallet in a singleton role stops the batch.
LEMMA GenerateStep ==
  ASSUME IInv, Commands = "stopped", NEW S \in SUBSET Keys, NEW role \in Roles,
         Generate(S, role)
  PROVE  IInv'
<1> DEFINE live == cache["server"]["live"]
           grown == [k \in DOMAIN live \cup S |-> IF k \in S THEN role ELSE live[k]]
<1>1. /\ live # None /\ S \cap out = {}
      /\ UNCHANGED <<owed, out, dead>>
  <2> DEFINE held == DOMAIN disk["live"] \cup DOMAIN disk["bin"] \cup DOMAIN live \cup owed
  <2>1. S \cap (held \cup out \cup dead) = {}
    BY DEF Generate
  <2>2. live # None /\ UNCHANGED <<owed, out, dead>>
    BY DEF Generate, Ready, ghosts
  <2> HIDE DEF held
  <2>3. S \cap out = {}
    BY <2>1
  <2> QED
    BY <2>2, <2>3
<1>2. live \in LiveStores /\ out \cap DOMAIN live = {}
  BY <1>1 DEF IInv, Kinds, IsStore, Gone
<1>3. CASE role \in Singletons /\ Cardinality(S) > 1
  <2>1. /\ up /\ Idle("server") /\ Ask
        /\ \E k \in S : cache' = [cache EXCEPT !["server"]["live"] = With(live, k, role)]
        /\ UNCHANGED <<disk, tmp, todo, wrote, call, up>>
    BY <1>3 DEF Generate, files
  <2>2. PICK k \in S : cache' = [cache EXCEPT !["server"]["live"] = With(live, k, role)]
    BY <2>1
  <2>3. /\ With(live, k, role) \in LiveStores
        /\ DOMAIN With(live, k, role) = DOMAIN live \cup {k}
    BY <1>2, WithIsLive
  <2>4. asks \in Nat /\ asks' = asks + 1 /\ asks' \in 0..MaxAsks
    BY <2>1, KeystoreAssumption DEF Ask, IInv, Kinds
  <2>5. /\ IsCache(cache') /\ cache'["server"]["live"] = With(live, k, role)
        /\ \A q \in Procs, g \in Files :
             q # "server" \/ g # "live" => cache'[q][g] = cache[q][g]
    <3>1. IsCache(cache)
      BY DEF IInv, Funs
    <3>2. cache' = SetEntry(cache, "server", "live", With(live, k, role))
      BY <2>2 DEF SetEntry
    <3> QED
      BY <3>1, <3>2, CacheEntry
  <2> HIDE DEF live
  <2>6. Funs' /\ Kinds'
    BY <2>1, <2>3, <2>4, <2>5, <1>1 DEF IInv, Funs, Kinds, IsStore
  <2>7. Dates'
    <3>1. Dated(disk["bin"], asks + 1)
      BY <2>4, LaterDated DEF IInv, Dates, Kinds, IsStore
    <3>2. ASSUME NEW p \in Procs, cache[p]["bin"] # None
          PROVE  Dated(cache[p]["bin"], asks + 1)
      BY <2>4, <3>2, LaterDated DEF IInv, Dates, Kinds, IsStore
    <3>3. ASSUME NEW p \in Procs, NEW i \in DOMAIN todo[p], todo[p][i].file = "bin"
          PROVE  Dated(todo[p][i].store, asks + 1)
      BY <2>4, <3>3, LaterDated DEF IInv, Dates, Kinds, IsStore
    <3> QED
      BY <2>1, <2>4, <2>5, <3>1, <3>2, <3>3 DEF Dates
  <2>8. Written' /\ Solo' /\ ServerCalls'
    BY <2>1, <2>5 DEF IInv, Written, Solo, ServerCalls, Idle, Target
  <2>9. ShellCalls' /\ OwedHeld'
    BY <1>1, <2>1, <2>3, <2>5 DEF IInv, Solo, ShellCalls, Idle, OwedHeld, HeldIn, live
  <2>10. Gone'
    BY <1>1, <1>2, <2>1, <2>3, <2>5 DEF IInv, Gone, GoneStaysGone
  <2> QED
    BY <2>6, <2>7, <2>8, <2>9, <2>10 DEF IInv
<1>4. CASE ~(role \in Singletons /\ Cardinality(S) > 1)
  <2>1. Serve("add", S, <<Step("live", grown)>>)
    BY <1>4 DEF Generate
  <2>2. grown \in [DOMAIN live \cup S -> Roles] /\ DOMAIN grown = DOMAIN live \cup S
    BY <1>2, LiveStore
  <2>3. DOMAIN live \cup S \subseteq Keys
    BY <1>2, LiveStore
  <2> HIDE DEF grown
  <2>4. grown \in LiveStores
    BY <2>2, <2>3, LiveStore
  <2> QED
    BY <1>1, <1>2, <2>1, <2>2, <2>4, LiveWriteStep
<1> QED
  BY <1>3, <1>4

\* The archive gets the key before the live store loses it.
LEMMA RemoveStep ==
  ASSUME IInv, Commands = "stopped", NEW k \in Keys, Remove(k)
  PROVE  IInv'
<1> DEFINE live == cache["server"]["live"]
           bin == cache["server"]["bin"]
           more == Archived(bin, k, live[k])
           less == Without(live, k)
           steps == <<Step("bin", more), Step("live", less)>>
<1>1. /\ live # None /\ bin # None /\ k \in DOMAIN live
      /\ Serve("remove", {k}, steps)
      /\ dead' = dead \ {k} /\ UNCHANGED <<owed, out>>
  BY DEF Remove, Ready, RemoveSteps
<1>2. /\ live \in LiveStores /\ out \cap DOMAIN live = {}
      /\ bin \in BinStores /\ dead \cap DOMAIN bin = {} /\ Dated(bin, asks)
  BY <1>1 DEF IInv, Kinds, IsStore, Gone, Dates
<1>3. asks \in 0..MaxAsks /\ asks < MaxAsks
  BY <1>1 DEF Serve, Ask, IInv, Kinds
<1>4. live[k] \in Roles
  BY <1>1, <1>2, LiveStore
<1>5. /\ more \in BinStores /\ Dated(more, asks + 1) /\ k \in DOMAIN more
      /\ DOMAIN more \subseteq DOMAIN bin \cup {k}
  BY <1>2, <1>3, <1>4, ArchivedIsBin
<1>6. less \in LiveStores /\ DOMAIN less = DOMAIN live \ {k}
  BY <1>2, WithoutIsLive
<1>7. /\ call'["server"].kind = "remove" /\ call'["server"].keys = {k}
      /\ todo'["server"] = steps /\ cache' = cache
  BY <1>1 DEF Serve, IInv, Funs
<1> HIDE DEF more, less
<1>8. /\ TwoLeft(steps) /\ DOMAIN steps = {1, 2}
      /\ steps[1].file = "bin" /\ steps[1].store = more
      /\ steps[2].file = "live" /\ steps[2].store = less
  BY DEF Step, TwoLeft
<1> HIDE DEF steps
<1>9. ServerCalls'
  BY <1>1, <1>5, <1>6, <1>7, <1>8 DEF ServerCalls
<1>10. dead' \cap DOMAIN more = {} /\ out' \cap DOMAIN less = {}
  BY <1>1, <1>2, <1>5, <1>6
<1> HIDE DEF live, bin
<1> QED
  BY <1>1, <1>5, <1>6, <1>8, <1>9, <1>10, ServeStep DEF IsStore

LEMMA CommandStep ==
  ASSUME IInv, Commands = "stopped", NEW kind \in {"restore", "purge"}, NEW k \in Keys,
         Command(kind, k)
  PROVE  IInv'
<1>1. /\ Idle("shell") /\ ~up /\ k \in DOMAIN disk["bin"]
      /\ UNCHANGED <<disk, tmp, todo, wrote, up, owed, out, dead>>
  BY DEF Command, files, ghosts
<1>2. /\ call' = [call EXCEPT !["shell"] = [kind |-> kind, keys |-> {k}]]
      /\ cache' = [cache EXCEPT !["shell"]["bin"] = disk["bin"]]
  BY DEF Command
<1>3. asks \in Nat /\ asks' = asks + 1 /\ asks' \in 0..MaxAsks
  BY KeystoreAssumption DEF Command, Ask, IInv, Kinds
<1>4. IsCache(cache) /\ cache' = SetEntry(cache, "shell", "bin", disk["bin"])
  BY <1>2 DEF SetEntry, IInv, Funs
<1>5. /\ IsCache(cache') /\ cache'["shell"]["bin"] = disk["bin"]
      /\ cache'["shell"]["live"] = None /\ cache'["server"] = [f \in Files |-> None]
  <2>1. IsCache(cache') /\ cache'["shell"]["bin"] = disk["bin"]
    BY <1>4, CacheEntry
  <2>2. cache'["shell"]["live"] = cache["shell"]["live"] /\ cache'["server"] = cache["server"]
    BY <1>4 DEF SetEntry, IsCache
  <2>3. cache["server"] = [f \in Files |-> None] /\ cache["shell"]["live"] = None
    BY <1>1, <1>4 DEF IInv, Solo, IsCache
  <2> QED
    BY <2>1, <2>2, <2>3
<1>6. /\ call'["shell"].kind = kind /\ call'["shell"].keys = {k}
      /\ call'["server"] = call["server"] /\ Idle("server")
      /\ todo["shell"] = <<>> /\ todo["server"] = <<>>
      /\ ~wrote["server"] /\ ~wrote["shell"]
  BY <1>1, <1>2 DEF IInv, Funs, Solo
<1>7. Funs' /\ Kinds'
  BY <1>1, <1>2, <1>3, <1>5, <1>6 DEF IInv, Funs, Kinds
<1>8. Dates'
  <2>1. Dated(disk["bin"], asks + 1)
    BY <1>3, LaterDated DEF IInv, Dates, Kinds, IsStore
  <2> QED
    BY <1>1, <1>3, <1>5, <1>6, <2>1 DEF Dates
<1>9. Written' /\ Solo' /\ ServerCalls' /\ ShellCalls'
  BY <1>1, <1>5, <1>6 DEF IInv, Written, Solo, ServerCalls, ShellCalls, Idle
<1>10. OwedHeld'
  BY <1>1, <1>5 DEF IInv, OwedHeld, HeldIn
<1>11. Gone'
  BY <1>1, <1>5, <1>6 DEF IInv, Gone, GoneStaysGone
<1> QED
  BY <1>7, <1>8, <1>9, <1>10, <1>11 DEF IInv

\* A command that ends has nothing left and holds nothing.
LEMMA ShellEnds ==
  ASSUME IInv, Done("shell"), UNCHANGED <<disk, up, asks, owed, out, dead>>,
         IsCache(cache'), cache'["server"] = cache["server"],
         \A f \in Files : cache'["shell"][f] = None,
         tmp' = tmp,
         ~Idle("shell")
  PROVE  IInv'
<1>1. /\ call'["shell"] = NoCall /\ call'["server"] = call["server"]
      /\ todo'["shell"] = <<>> /\ todo'["server"] = todo["server"]
      /\ wrote'["shell"] = FALSE /\ wrote'["server"] = wrote["server"]
  BY DEF Done, IInv, Funs
<1>2. NoCall.kind = "none" /\ NoCall.keys = {}
  BY DEF NoCall
<1>3. ~up /\ Idle("server") /\ todo["server"] = <<>> /\ ~wrote["server"]
  BY DEF IInv, Solo
<1>4. Funs' /\ Kinds'
  BY <1>1, <1>2, <1>3 DEF Done, IInv, Funs, Kinds
<1>5. Dates' /\ Written' /\ Solo'
  BY <1>1, <1>2, <1>3 DEF IInv, Dates, Written, Solo, Idle
<1>6. ServerCalls' /\ ShellCalls'
  BY <1>1, <1>2, <1>3 DEF IInv, ServerCalls, ShellCalls, Idle
<1>7. OwedHeld' /\ Gone'
  BY <1>1, <1>3 DEF IInv, OwedHeld, HeldIn, Gone, GoneStaysGone
<1> QED
  BY <1>4, <1>5, <1>6, <1>7 DEF IInv

\* The shell's caches emptied, as they are when a command ends.
LEMMA CachesGone ==
  ASSUME IInv, NEW p \in Procs, cache' = [cache EXCEPT ![p] = [f \in Files |-> None]]
  PROVE  /\ IsCache(cache') /\ \A f \in Files : cache'[p][f] = None
         /\ \A q \in Procs \ {p} : cache'[q] = cache[q]
BY DEF IInv, Funs, IsCache

\* A command that is refused ends; one that is not puts the key in the live
\* store first.
LEMMA RestoreStep ==
  ASSUME IInv, Commands = "stopped", NEW k \in Keys, Restore(k)
  PROVE  IInv'
<1> DEFINE live == cache["shell"]["live"]
           bin == cache["shell"]["bin"]
<1>1. /\ call["shell"].kind = "restore" /\ call["shell"].keys = {k} /\ ~Idle("shell")
      /\ todo["shell"] = <<>> /\ live # None
      /\ UNCHANGED <<disk, tmp, up, asks, owed, dead>>
  BY DEF Restore, Ready, Idle, files
<1>2. CASE RestoreRefused(live, k, bin[k].role)
  <2>1. /\ Done("shell") /\ out' = out
        /\ cache' = [cache EXCEPT !["shell"] = [f \in Files |-> None]]
    BY <1>2 DEF Restore
  <2>2. /\ IsCache(cache') /\ \A f \in Files : cache'["shell"][f] = None
        /\ cache'["server"] = cache["server"]
    BY <2>1, CachesGone
  <2> QED
    BY <1>1, <2>1, <2>2, ShellEnds
<1>3. CASE ~RestoreRefused(live, k, bin[k].role)
  <2> DEFINE more == With(live, k, bin[k].role)
             less == Without(bin, k)
             steps == <<Step("live", more), Step("bin", less)>>
  <2>1. /\ todo' = [todo EXCEPT !["shell"] = steps]
        /\ out' = out \ {k} /\ UNCHANGED <<cache, call, wrote>>
    BY <1>3 DEF Restore, RestoreSteps
  <2>2. /\ live = disk["live"] /\ bin = disk["bin"] /\ k \in DOMAIN bin /\ ~wrote["shell"]
    BY <1>1 DEF IInv, ShellCalls
  <2>3. /\ live \in LiveStores /\ out \cap DOMAIN live = {}
        /\ bin \in BinStores /\ dead \cap DOMAIN bin = {} /\ Dated(bin, asks)
    BY <2>2 DEF IInv, Kinds, IsStore, Gone, GoneStaysGone, Dates
  <2>4. bin[k].role \in Roles
    BY <2>2, <2>3, BinStore DEF Wallet
  <2>5. more \in LiveStores /\ DOMAIN more = DOMAIN live \cup {k}
    BY <2>3, <2>4, WithIsLive
  <2>6. less \in BinStores /\ Dated(less, asks) /\ DOMAIN less = DOMAIN bin \ {k}
    BY <2>3, WithoutIsBin
  <2>7. out' \cap DOMAIN more = {} /\ dead' \cap DOMAIN less = {}
    BY <1>1, <2>1, <2>3, <2>5, <2>6
  <2> HIDE DEF more, less
  <2>8. /\ TwoLeft(steps) /\ DOMAIN steps = {1, 2}
        /\ steps[1].file = "live" /\ steps[1].store = more
        /\ steps[2].file = "bin" /\ steps[2].store = less
    BY DEF Step, TwoLeft
  <2>9. todo'["shell"] = steps /\ todo'["server"] = todo["server"] /\ steps # <<>>
    BY <2>1, <2>8 DEF IInv, Funs
  <2>10. Funs'
    BY <1>1, <2>1 DEF IInv, Funs
  <2> HIDE DEF steps
  <2>11. Kinds' /\ Dates'
    BY <1>1, <2>1, <2>5, <2>6, <2>8, <2>9 DEF IInv, Kinds, Dates, IsStore
  <2>12. Written' /\ Solo' /\ ServerCalls'
    BY <1>1, <2>1, <2>2, <2>9 DEF IInv, Written, Solo, ServerCalls, Idle, Target
  <2>13. ShellCalls'
    BY <1>1, <2>1, <2>2, <2>5, <2>6, <2>8, <2>9 DEF IInv, ShellCalls
  <2>14. OwedHeld' /\ Gone'
    BY <1>1, <2>1, <2>7, <2>8, <2>9 DEF IInv, OwedHeld, HeldIn, Gone, GoneStaysGone
  <2> QED
    BY <2>10, <2>11, <2>12, <2>13, <2>14 DEF IInv
<1> QED
  BY <1>2, <1>3

LEMMA PurgeStep ==
  ASSUME IInv, Commands = "stopped", NEW k \in Keys, Purge(k)
  PROVE  IInv'
<1> DEFINE bin == cache["shell"]["bin"]
           less == Without(bin, k)
           steps == <<Step("bin", less)>>
<1>1. /\ call["shell"].kind = "purge" /\ call["shell"].keys = {k} /\ ~Idle("shell")
      /\ todo["shell"] = <<>> /\ owed' = owed \ {k}
      /\ todo' = [todo EXCEPT !["shell"] = steps]
      /\ UNCHANGED <<disk, tmp, cache, wrote, call, up, asks, out, dead>>
  BY DEF Purge, Idle, files
<1>2. bin = disk["bin"] /\ ~wrote["shell"]
  BY <1>1 DEF IInv, ShellCalls
<1>3. bin \in BinStores /\ dead \cap DOMAIN bin = {} /\ Dated(bin, asks)
  BY <1>2 DEF IInv, Kinds, IsStore, Gone, GoneStaysGone, Dates
<1>4. less \in BinStores /\ Dated(less, asks) /\ DOMAIN less = DOMAIN bin \ {k}
  BY <1>3, WithoutIsBin
<1> HIDE DEF less
<1>5. /\ OneLeft(steps) /\ DOMAIN steps = {1}
      /\ steps[1].file = "bin" /\ steps[1].store = less
  BY DEF Step, OneLeft
<1>6. todo'["shell"] = steps /\ todo'["server"] = todo["server"] /\ steps # <<>>
  BY <1>1, <1>5 DEF IInv, Funs
<1>7. Funs'
  BY <1>1 DEF IInv, Funs
<1> HIDE DEF steps
<1>8. Kinds' /\ Dates'
  BY <1>1, <1>4, <1>5, <1>6 DEF IInv, Kinds, Dates, IsStore
<1>9. Written' /\ Solo' /\ ServerCalls'
  BY <1>1, <1>2, <1>6 DEF IInv, Written, Solo, ServerCalls, Idle, Target
<1>10. ShellCalls'
  BY <1>1, <1>2, <1>4, <1>5, <1>6 DEF IInv, ShellCalls
<1>11. OwedHeld' /\ Gone'
  BY <1>1, <1>3, <1>4, <1>5, <1>6 DEF IInv, OwedHeld, HeldIn, Gone, GoneStaysGone
<1> QED
  BY <1>7, <1>8, <1>9, <1>10, <1>11 DEF IInv

\* A process with writes left has a call out.
LEMMA WritingFacts ==
  ASSUME IInv, NEW p \in Procs, Writing(p)
  PROVE  /\ ~Idle(p) /\ 1 \in DOMAIN todo[p] /\ (OneLeft(todo[p]) \/ TwoLeft(todo[p]))
         /\ Target(p) \in Files
         /\ todo[p][1].store # None /\ IsStore(Target(p), todo[p][1].store)
         /\ Target(p) = "bin" => /\ Dated(todo[p][1].store, asks)
                                 /\ dead \cap DOMAIN todo[p][1].store = {}
         /\ Target(p) = "live" => out \cap DOMAIN todo[p][1].store = {}
         /\ p = "server" => up /\ Idle("shell")
         /\ p = "shell" => ~up /\ Idle("server")
<1>1. ~Idle(p) /\ (OneLeft(todo[p]) \/ TwoLeft(todo[p])) /\ 1 \in DOMAIN todo[p]
  BY DEF Writing, IInv, Solo, Kinds, OneLeft, TwoLeft
<1>2. Target(p) \in Files /\ IsStore(Target(p), todo[p][1].store)
  BY <1>1 DEF IInv, Kinds, Target
<1>3. todo[p][1].store # None
  BY <1>2, NoneAssumption DEF IsStore
<1>4. /\ Target(p) = "bin" => /\ Dated(todo[p][1].store, asks)
                              /\ dead \cap DOMAIN todo[p][1].store = {}
      /\ Target(p) = "live" => out \cap DOMAIN todo[p][1].store = {}
  BY <1>1 DEF IInv, Dates, Gone, Target
<1>5. /\ p = "server" => up /\ Idle("shell")
      /\ p = "shell" => ~up /\ Idle("server")
  BY <1>1 DEF IInv, Solo
<1> QED
  BY <1>1, <1>2, <1>3, <1>4, <1>5

\* The server's cache takes what is to be written: nothing owed is lost to it,
\* whether the write then succeeds or not.
LEMMA CacheChanges ==
  ASSUME IInv, NEW p \in Procs, Writing(p),
         cache' = SetEntry(cache, p, Target(p), todo[p][1].store),
         disk' = disk, owed' = owed \ Evicted(p)
  PROVE  /\ IsCache(cache') /\ cache'[p][Target(p)] = todo[p][1].store
         /\ \A q \in Procs, g \in Files : q # p \/ g # Target(p) => cache'[q][g] = cache[q][g]
         /\ OwedHeld'
<1> DEFINE T == Target(p)
           store == todo[p][1].store
<1>1. T \in Files /\ store # None /\ ~Idle(p)
  BY WritingFacts
<1>2. /\ IsCache(cache') /\ cache'[p][T] = store
      /\ \A q \in Procs, g \in Files : q # p \/ g # T => cache'[q][g] = cache[q][g]
  BY <1>1, CacheEntry DEF IInv, Funs
<1>3. CASE p = "shell"
  BY <1>2, <1>3 DEF IInv, OwedHeld, HeldIn
<1>4. CASE p = "server"
  <2> DEFINE live == cache["server"]["live"]
             bin == cache["server"]["bin"]
  <2> SUFFICES ASSUME NEW k \in owed' PROVE \E f \in Files : HeldIn(k, f)'
    BY <1>2 DEF OwedHeld
  <2>1. k \in owed /\ k \notin Evicted(p)
    OBVIOUS
  <2>2. PICK f \in Files : HeldIn(k, f)
    BY <2>1 DEF IInv, OwedHeld
  <2>3. CASE f # T
    BY <1>2, <1>4, <2>2, <2>3 DEF HeldIn
  <2>4. CASE k \in DOMAIN store /\ f = T
    BY <1>2, <1>4, <2>2, <2>4 DEF HeldIn
  <2>5. CASE k \notin DOMAIN store /\ f = T /\ T = "bin"
    <3>1. call["server"].kind = "remove" /\ live # None /\ bin # None
      BY <1>1, <1>4, <2>5 DEF IInv, Solo, ServerCalls, Idle, Target
    <3>2. k \in DOMAIN bin
      BY <2>2, <2>5, <3>1 DEF HeldIn
    <3>3. k \in DOMAIN live \cap DOMAIN disk["live"]
      BY <1>4, <2>1, <2>5, <3>1, <3>2 DEF Evicted
    <3> QED
      BY <1>2, <1>4, <2>5, <3>3 DEF HeldIn
  <2>6. CASE k \notin DOMAIN store /\ f = T /\ T = "live"
    <3>1. live # None /\ k \in DOMAIN live
      BY <1>1, <1>4, <2>2, <2>6 DEF IInv, Solo, ServerCalls, Idle, HeldIn
    <3>2. call["server"].kind = "remove"
      BY <1>1, <1>4, <2>6, <3>1 DEF IInv, Solo, ServerCalls, Idle
    <3>3. k \in DOMAIN disk["bin"] /\ k \in DOMAIN bin
      BY <1>4, <2>6, <3>1, <3>2 DEF IInv, ServerCalls, Target
    <3> QED
      BY <1>2, <1>4, <2>6, <3>3 DEF HeldIn
  <2> QED
    BY <1>1, <2>3, <2>4, <2>5, <2>6
<1> QED
  BY <1>2, <1>3, <1>4

LEMMA WriteTmpStep ==
  ASSUME IInv, Commands = "stopped", NEW p \in Procs, WriteTmp(p)
  PROVE  IInv'
<1> DEFINE T == Target(p)
           store == todo[p][1].store
<1>1. /\ Writing(p) /\ owed' = owed \ Evicted(p)
      /\ cache' = SetEntry(cache, p, T, store)
      /\ tmp' = [tmp EXCEPT ![T] = store] /\ wrote' = [wrote EXCEPT ![p] = TRUE]
      /\ UNCHANGED <<disk, todo, call, up, asks, out, dead>>
  BY DEF WriteTmp, SetEntry
<1>2. /\ T \in Files /\ store # None /\ IsStore(T, store) /\ ~Idle(p)
      /\ 1 \in DOMAIN todo[p] /\ todo[p] # <<>>
      /\ T = "bin" => Dated(store, asks) /\ dead \cap DOMAIN store = {}
      /\ T = "live" => out \cap DOMAIN store = {}
      /\ p = "server" => up /\ Idle("shell")
      /\ p = "shell" => ~up /\ Idle("server")
  BY <1>1, WritingFacts DEF Writing
<1>3. /\ IsCache(cache') /\ cache'[p][T] = store
      /\ \A q \in Procs, g \in Files : q # p \/ g # T => cache'[q][g] = cache[q][g]
      /\ OwedHeld'
  BY <1>1, CacheChanges
<1>4. /\ tmp'[T] = store /\ wrote'[p] = TRUE
      /\ \A q \in Procs : q # p => wrote'[q] = FALSE
  BY <1>1, <1>2 DEF IInv, Funs, Solo
<1>5. Funs' /\ Kinds'
  <2>1. Funs'
    BY <1>1, <1>3 DEF IInv, Funs
  <2>2. Kinds'
    <3>1. \A q \in Procs, f \in Files : cache'[q][f] # None => IsStore(f, cache'[q][f])
      BY <1>2, <1>3 DEF IInv, Kinds
    <3>2. \A q \in Procs : wrote'[q] \in BOOLEAN
      BY <1>4
    <3>3. owed' \subseteq Keys
      BY <1>1 DEF IInv, Kinds
    <3> QED
      BY <1>1, <3>1, <3>2, <3>3 DEF IInv, Kinds
  <2> QED
    BY <2>1, <2>2
<1>6. Dates' /\ Written' /\ Solo'
  BY <1>1, <1>2, <1>3, <1>4 DEF IInv, Dates, Written, Solo, Idle, Target
<1>7. ServerCalls'
  <2>1. CASE p = "shell"
    BY <1>1, <1>2, <2>1 DEF ServerCalls, Idle
  <2>2. CASE p = "server"
    <3>1. CASE call["server"].kind \in {"add", "role"}
      BY <1>1, <1>2, <1>3, <2>2, <3>1 DEF IInv, ServerCalls, Target
    <3>2. CASE call["server"].kind = "remove"
      <4>1. PICK k \in Keys : /\ call["server"].keys = {k}
                              /\ \/ /\ TwoLeft(todo["server"]) /\ T = "bin"
                                    /\ todo["server"][2].file = "live"
                                    /\ k \in DOMAIN store
                                    /\ DOMAIN todo["server"][2].store =
                                         DOMAIN cache["server"]["live"] \ {k}
                                 \/ /\ OneLeft(todo["server"]) /\ T = "live"
                                    /\ k \in DOMAIN disk["bin"]
                                    /\ k \in DOMAIN cache["server"]["bin"]
                                    /\ DOMAIN store = DOMAIN cache["server"]["live"] \ {k}
        BY <2>2, <3>2 DEF IInv, ServerCalls, Target
      <4>2. cache["server"]["live"] # None /\ cache["server"]["bin"] # None
        BY <3>2 DEF IInv, ServerCalls
      <4>3. /\ cache'["server"]["live"] # None /\ cache'["server"]["bin"] # None
            /\ T = "bin" => cache'["server"]["live"] = cache["server"]["live"]
            /\ T = "live" => /\ cache'["server"]["bin"] = cache["server"]["bin"]
                             /\ cache'["server"]["live"] = store
        BY <1>2, <1>3, <2>2, <4>2
      <4> QED
        BY <1>1, <2>2, <3>2, <4>1, <4>3 DEF ServerCalls, Target
    <3> QED
      BY <1>1, <3>1, <3>2 DEF ServerCalls
  <2> QED
    BY <2>1, <2>2
<1>8. ShellCalls'
  BY <1>1, <1>2 DEF IInv, ShellCalls, Idle
<1>9. Gone'
  BY <1>1, <1>2, <1>3 DEF IInv, Gone, GoneStaysGone
<1> QED
  BY <1>3, <1>5, <1>6, <1>7, <1>8, <1>9 DEF IInv

\* The change is in the server's cache although the write failed.
LEMMA WriteFailsStep ==
  ASSUME IInv, Commands = "stopped", NEW p \in Procs, WriteFails(p)
  PROVE  IInv'
<1>1. /\ Writing(p) /\ owed' = owed \ Evicted(p) /\ Done(p)
      /\ UNCHANGED <<disk, tmp, up, asks, out, dead>>
  BY DEF WriteFails, files
<1>2. /\ Target(p) \in Files /\ IsStore(Target(p), todo[p][1].store)
      /\ Target(p) = "bin" => /\ Dated(todo[p][1].store, asks)
                              /\ dead \cap DOMAIN todo[p][1].store = {}
      /\ Target(p) = "live" => out \cap DOMAIN todo[p][1].store = {}
  BY <1>1, WritingFacts
<1>3. CASE p = "shell"
  <2>1. cache' = [cache EXCEPT !["shell"] = [f \in Files |-> None]]
    BY <1>3 DEF WriteFails, Kept
  <2>2. /\ IsCache(cache') /\ \A f \in Files : cache'["shell"][f] = None
        /\ cache'["server"] = cache["server"]
    BY <2>1, CachesGone
  <2>3. owed' = owed
    BY <1>1, <1>3 DEF Evicted, IInv, Solo
  <2>4. ~Idle("shell")
    BY <1>1, <1>3, WritingFacts
  <2> QED
    BY <1>1, <1>3, <2>2, <2>3, <2>4, ShellEnds
<1>4. CASE p = "server"
  <2>1. cache' = SetEntry(cache, p, Target(p), todo[p][1].store)
    BY <1>2, <1>4 DEF WriteFails, SetEntry, IInv, Funs, IsCache
  <2>2. /\ IsCache(cache') /\ cache'[p][Target(p)] = todo[p][1].store
        /\ \A q \in Procs, g \in Files : q # p \/ g # Target(p) => cache'[q][g] = cache[q][g]
        /\ OwedHeld'
    BY <1>1, <2>1, CacheChanges
  <2>3. up /\ Idle("shell") /\ todo["shell"] = <<>> /\ ~wrote["shell"]
    BY <1>1, <1>4, WritingFacts DEF IInv, Solo
  <2>4. /\ call'["server"] = NoCall /\ call'["shell"] = call["shell"]
        /\ todo'["server"] = <<>> /\ todo'["shell"] = <<>>
        /\ ~wrote'["server"] /\ ~wrote'["shell"]
    BY <1>1, <1>4, <2>3 DEF Done, IInv, Funs
  <2>5. NoCall.kind = "none" /\ NoCall.keys = {}
    BY DEF NoCall
  <2>6. Funs' /\ Kinds'
    <3>1. Funs'
      BY <1>1, <2>2 DEF Done, IInv, Funs
    <3>2. \A q \in Procs : wrote'[q] \in BOOLEAN /\ call'[q].keys \subseteq Keys
      BY <1>1, <1>4, <2>4, <2>5 DEF Done, IInv, Funs, Kinds
    <3> QED
      BY <1>1, <1>2, <1>4, <2>2, <2>4, <3>1, <3>2 DEF IInv, Kinds
  <2>7. Dates' /\ Written' /\ Solo'
    BY <1>1, <1>2, <1>4, <2>2, <2>3, <2>4, <2>5 DEF IInv, Dates, Written, Solo, Idle
  <2>8. ServerCalls' /\ ShellCalls'
    BY <1>1, <2>3, <2>4, <2>5 DEF ServerCalls, ShellCalls, Idle
  <2>9. Gone'
    BY <1>1, <1>2, <1>4, <2>2, <2>4 DEF IInv, Gone, GoneStaysGone
  <2> QED
    BY <2>2, <2>6, <2>7, <2>8, <2>9 DEF IInv
<1> QED
  BY <1>3, <1>4

\* The file takes what the cache holds; after the last write the answer goes out.
LEMMA RenameStep ==
  ASSUME IInv, Commands = "stopped", NEW p \in Procs, Rename(p)
  PROVE  IInv'
<1> DEFINE T == Target(p)
           store == todo[p][1].store
           other == IF p = "server" THEN "shell" ELSE "server"
<1>1. /\ Writing(p) /\ wrote[p] /\ tmp[T] # None
      /\ disk' = [disk EXCEPT ![T] = tmp[T]] /\ tmp' = [tmp EXCEPT ![T] = None]
      /\ UNCHANGED <<up, asks>>
  BY DEF Rename
<1>2. /\ T \in Files /\ store # None /\ IsStore(T, store) /\ ~Idle(p) /\ Idle(other)
      /\ (OneLeft(todo[p]) \/ TwoLeft(todo[p]))
      /\ T = "bin" => Dated(store, asks) /\ dead \cap DOMAIN store = {}
      /\ T = "live" => out \cap DOMAIN store = {}
      /\ p = "server" => up
      /\ p = "shell" => ~up
  BY <1>1, WritingFacts
<1>3. /\ cache[p][T] = store /\ disk'[T] = store
      /\ \A f \in Files : f # T => disk'[f] = disk[f]
  BY <1>1, <1>2 DEF IInv, Written, Funs
<1>4. /\ other \in Procs /\ p # other /\ todo[other] = <<>> /\ ~wrote[other]
      /\ \A q \in Procs : q # p => q = other
      /\ (p = "server" => \A f \in Files : cache["shell"][f] = None)
      /\ (p = "shell" => \A f \in Files : cache["server"][f] = None)
  BY <1>2 DEF IInv, Solo
\* What is owed is held where it was, or where the call has put it before.
<1>5. \A k \in owed : \E f \in Files :
        /\ k \in DOMAIN disk'[f]
        /\ cache["server"][f] # None => k \in DOMAIN cache["server"][f]
  <2> SUFFICES ASSUME NEW k \in owed
               PROVE  \E f \in Files :
                        /\ k \in DOMAIN disk'[f]
                        /\ cache["server"][f] # None => k \in DOMAIN cache["server"][f]
    OBVIOUS
  <2>1. PICK f \in Files : HeldIn(k, f)
    BY DEF IInv, OwedHeld
  <2>2. CASE p = "server"
    BY <1>2, <1>3, <2>1, <2>2 DEF HeldIn
  <2>3. CASE p = "shell"
    <3>1. PICK j \in Keys : call["shell"].keys = {j}
      BY <1>2, <2>3 DEF IInv, ShellCalls, Idle
    <3>2. CASE call["shell"].kind = "restore"
      <4>1. \/ T = "live" /\ DOMAIN store = DOMAIN disk["live"] \cup {j}
            \/ T = "bin" /\ DOMAIN store = DOMAIN disk["bin"] \ {j} /\ j \in DOMAIN disk["live"]
        BY <1>1, <2>3, <3>1, <3>2 DEF IInv, ShellCalls, Writing, Target
      <4> QED
        BY <1>2, <1>3, <1>4, <2>1, <2>3, <4>1 DEF HeldIn
    <3>3. CASE call["shell"].kind = "purge"
      <4>1. T = "bin" /\ DOMAIN store = DOMAIN disk["bin"] \ {j} /\ j \notin owed
        BY <1>1, <2>3, <3>1, <3>3 DEF IInv, ShellCalls, Writing, Target
      <4> QED
        BY <1>2, <1>3, <1>4, <2>1, <2>3, <4>1 DEF HeldIn
    <3> QED
      BY <1>2, <2>3, <3>2, <3>3 DEF IInv, Solo, Idle
  <2> QED
    BY <2>2, <2>3
<1>6. CASE 2 \in DOMAIN todo[p]
  <2>1. /\ todo' = [todo EXCEPT ![p] = <<todo[p][2]>>] /\ wrote' = [wrote EXCEPT ![p] = FALSE]
        /\ UNCHANGED <<cache, call, owed, out, dead>>
    BY <1>6 DEF Rename, ghosts
  <2>2. TwoLeft(todo[p])
    BY <1>2, <1>6 DEF OneLeft
  <2>3. /\ todo'[p][1] = todo[p][2] /\ todo'[p] # <<>>
        /\ todo'[other] = <<>> /\ ~wrote'[p] /\ ~wrote'[other]
    BY <1>4, <2>1 DEF IInv, Funs
  <2>11. OneLeft(todo'[p]) /\ DOMAIN todo'[p] = {1}
    <3>1. todo'[p] = <<todo[p][2]>>
      BY <2>1 DEF IInv, Funs
    <3> QED
      BY <3>1 DEF OneLeft
  <2>4. Funs' /\ Written'
    BY <1>1, <1>4, <2>1, <2>3 DEF IInv, Funs, Written
  <2>5. Kinds' /\ Dates'
    <3>1. \A f \in Files : IsStore(f, disk'[f])
      BY <1>2, <1>3 DEF IInv, Kinds
    <3>2. Dated(disk'["bin"], asks)
      BY <1>2, <1>3 DEF IInv, Dates
    <3>3. \A q \in Procs : \A i \in DOMAIN todo'[q] :
            q = p /\ i = 1 /\ todo'[q][i] = todo[p][2] /\ 2 \in DOMAIN todo[p]
      BY <1>4, <1>6, <2>3, <2>11
    <3>4. \A q \in Procs : wrote'[q] \in BOOLEAN
      BY <2>1 DEF IInv, Funs, Kinds
    <3>5. \A q \in Procs : todo'[q] = <<>> \/ OneLeft(todo'[q]) \/ TwoLeft(todo'[q])
      BY <1>4, <2>3, <2>11
    <3>6. \A q \in Procs : \A i \in DOMAIN todo'[q] :
            /\ todo'[q][i].file \in Files
            /\ IsStore(todo'[q][i].file, todo'[q][i].store)
      BY <3>3 DEF IInv, Kinds
    <3>7. Kinds'
      BY <1>1, <2>1, <3>1, <3>4, <3>5, <3>6 DEF IInv, Kinds
    <3> QED
      BY <1>1, <2>1, <3>2, <3>3, <3>7 DEF IInv, Dates
  <2>6. Solo'
    BY <1>1, <1>2, <1>4, <2>1, <2>3 DEF IInv, Solo, Idle
  <2>7. ServerCalls'
    <3>1. CASE p = "server"
      BY <1>2, <1>3, <2>1, <2>2, <2>3, <2>11, <3>1 DEF IInv, ServerCalls, OneLeft, TwoLeft, Target
    <3>2. CASE p = "shell"
      BY <1>2, <2>1, <3>2 DEF ServerCalls, Idle
    <3> QED
      BY <3>1, <3>2
  <2>8. ShellCalls'
    <3>1. CASE p = "server"
      BY <1>2, <2>1, <3>1 DEF ShellCalls, Idle
    <3>2. CASE p = "shell"
      BY <1>2, <1>3, <2>1, <2>2, <2>3, <2>11, <3>2 DEF IInv, ShellCalls, OneLeft, TwoLeft, Target
    <3> QED
      BY <3>1, <3>2
  <2>9. OwedHeld'
    BY <1>5, <2>1 DEF OwedHeld, HeldIn
  <2>10. Gone'
    BY <1>2, <1>3, <1>4, <2>1, <2>2, <2>3, <2>11 DEF IInv, Gone, GoneStaysGone, OneLeft, TwoLeft
  <2> QED
    BY <2>4, <2>5, <2>6, <2>7, <2>8, <2>9, <2>10 DEF IInv
<1>7. CASE 2 \notin DOMAIN todo[p]
  <2>1. /\ cache' = [cache EXCEPT ![p] = Kept(p)] /\ Done(p)
        /\ owed' = IF call[p].kind \in {"add", "restore"} THEN owed \cup call[p].keys ELSE owed
        /\ out' = IF call[p].kind = "remove" THEN out \cup call[p].keys ELSE out
        /\ dead' = IF call[p].kind = "purge" THEN dead \cup call[p].keys ELSE dead
    BY <1>7 DEF Rename
  <2>2. OneLeft(todo[p])
    BY <1>2, <1>7 DEF TwoLeft
  <2>3. /\ call'[p] = NoCall /\ call'[other] = call[other]
        /\ \A q \in Procs : todo'[q] = <<>> /\ ~wrote'[q]
    BY <1>4, <2>1 DEF Done, IInv, Funs
  <2>4. NoCall.kind = "none" /\ NoCall.keys = {}
    BY DEF NoCall
  <2>5. /\ IsCache(cache') /\ cache'["server"] = cache["server"]
        /\ \A f \in Files : cache'["shell"][f] = None
    <3>1. CASE p = "server"
      <4>1. cache' = cache
        BY <2>1, <3>1 DEF Kept, IInv, Funs, IsCache
      <4> QED
        BY <1>4, <3>1, <4>1 DEF IInv, Funs
    <3>2. CASE p = "shell"
      <4>1. cache' = [cache EXCEPT !["shell"] = [f \in Files |-> None]]
        BY <2>1, <3>2 DEF Kept
      <4> QED
        BY <4>1, CachesGone
    <3> QED
      BY <3>1, <3>2
  <2>6. Funs' /\ Written'
    <3>1. Funs'
      BY <1>1, <2>1, <2>5 DEF Done, IInv, Funs
    <3> QED
      BY <2>3, <3>1 DEF Written
  <2>7. Kinds' /\ Dates'
    <3>1. (\A f \in Files : IsStore(f, disk'[f])) /\ Dated(disk'["bin"], asks)
      BY <1>2, <1>3 DEF IInv, Kinds, Dates
    <3>2. owed' \subseteq Keys /\ \A q \in Procs : call'[q].keys \subseteq Keys
      BY <1>4, <2>1, <2>3, <2>4 DEF IInv, Kinds
    <3>3. \A q \in Procs : wrote'[q] \in BOOLEAN
      BY <2>1 DEF Done, IInv, Funs, Kinds
    <3> QED
      BY <1>1, <2>3, <2>5, <3>1, <3>2, <3>3 DEF IInv, Kinds, Dates
  <2>8. Solo'
    BY <1>1, <1>2, <1>4, <2>3, <2>4, <2>5 DEF IInv, Solo, Idle
  <2>9. ServerCalls' /\ ShellCalls'
    BY <1>2, <1>4, <2>3, <2>4 DEF ServerCalls, ShellCalls, Idle
  <2>10. OwedHeld'
    <3> SUFFICES ASSUME NEW k \in owed' PROVE \E f \in Files : HeldIn(k, f)'
      BY DEF OwedHeld
    <3>1. CASE k \in owed
      BY <1>5, <2>5, <3>1 DEF HeldIn
    <3>2. CASE k \notin owed
      <4>1. call[p].kind \in {"add", "restore"} /\ k \in call[p].keys
        BY <2>1, <3>2
      <4>2. CASE p = "server"
        <5>1. T = "live" /\ k \in DOMAIN store
          BY <4>1, <4>2 DEF IInv, Solo, ServerCalls, Target
        <5> QED
          BY <1>3, <2>5, <4>2, <5>1 DEF HeldIn
      <4>3. CASE p = "shell"
        <5>1. call["shell"].kind = "restore" /\ todo["shell"] # <<>>
          BY <1>1, <4>1, <4>3 DEF IInv, Solo, Writing
        <5>2. call["shell"].keys = {k} /\ k \in Keys
          BY <4>1, <4>3, <5>1 DEF IInv, ShellCalls
        <5>3. T = "bin" /\ k \in DOMAIN disk["live"]
          BY <1>7, <4>3, <5>1, <5>2 DEF IInv, ShellCalls, Target, TwoLeft
        <5> QED
          BY <1>3, <1>4, <2>5, <4>3, <5>3 DEF HeldIn
      <4> QED
        BY <4>2, <4>3
    <3> QED
      BY <3>1, <3>2
  <2>11. Gone'
    <3>1. \A f \in Files : disk'[f] = IF f = T THEN store ELSE disk[f]
      BY <1>3
    <3>2. CASE call[p].kind = "remove"
      <4>1. p = "server" /\ T = "live" /\ cache["server"]["live"] = store
        BY <1>3, <1>7, <3>2 DEF IInv, Solo, ServerCalls, Target, TwoLeft
      <4>2. PICK k \in Keys : call["server"].keys = {k} /\ k \notin DOMAIN store
        BY <1>7, <3>2, <4>1 DEF IInv, ServerCalls, TwoLeft
      <4>3. out' = out \cup {k} /\ dead' = dead
        BY <2>1, <3>2, <4>1, <4>2
      <4> QED
        BY <1>2, <2>3, <2>5, <3>1, <4>1, <4>2, <4>3 DEF IInv, Gone, GoneStaysGone
    <3>3. CASE call[p].kind = "purge"
      <4>1. p = "shell" /\ todo["shell"] # <<>>
        BY <1>1, <3>3 DEF IInv, Solo, Writing
      <4>2. PICK k \in Keys : call["shell"].keys = {k}
        BY <3>3, <4>1 DEF IInv, ShellCalls
      <4>3. T = "bin" /\ k \notin DOMAIN store
        BY <3>3, <4>1, <4>2 DEF IInv, ShellCalls, Target
      <4>4. dead' = dead \cup {k} /\ out' = out
        BY <2>1, <3>3, <4>1, <4>2
      <4> QED
        BY <1>2, <1>4, <2>3, <2>5, <3>1, <4>1, <4>3, <4>4 DEF IInv, Gone, GoneStaysGone
    <3>4. CASE call[p].kind \notin {"remove", "purge"}
      <4>1. out' = out /\ dead' = dead
        BY <2>1, <3>4
      <4> QED
        BY <1>2, <2>3, <2>5, <3>1, <4>1 DEF IInv, Gone, GoneStaysGone
    <3> QED
      BY <3>2, <3>3, <3>4
  <2> QED
    BY <2>6, <2>7, <2>8, <2>9, <2>10, <2>11 DEF IInv
<1> QED
  BY <1>6, <1>7

\* A call that ends without its last rename leaves the files as they are.
LEMMA ServerEnds ==
  ASSUME IInv, up, Done("server"),
         UNCHANGED <<disk, tmp, asks, owed, out, dead>>,
         \/ up' = TRUE /\ cache' = cache
         \/ up' = FALSE /\ cache' = [cache EXCEPT !["server"] = [f \in Files |-> None]]
  PROVE  IInv'
<1>1. /\ call'["server"] = NoCall /\ call'["shell"] = call["shell"]
      /\ \A q \in Procs : todo'[q] = <<>> /\ ~wrote'[q]
  BY DEF Done, IInv, Funs, Solo
<1>2. NoCall.kind = "none" /\ NoCall.keys = {}
  BY DEF NoCall
<1>3. Idle("shell") /\ \A f \in Files : cache["shell"][f] = None
  BY DEF IInv, Solo
<1>4. /\ IsCache(cache') /\ cache'["shell"] = cache["shell"]
      /\ \A f \in Files : cache'["server"][f] \in {None, cache["server"][f]}
      /\ ~up' => \A f \in Files : cache'["server"][f] = None
  <2>1. CASE up' /\ cache' = cache
    BY <2>1 DEF IInv, Funs
  <2>2. CASE ~up' /\ cache' = [cache EXCEPT !["server"] = [f \in Files |-> None]]
    BY <2>2, CachesGone
  <2> QED
    BY <2>1, <2>2
<1>5. up' \in BOOLEAN
  OBVIOUS
<1>6. Funs' /\ Written'
  BY <1>1, <1>4 DEF Done, IInv, Funs, Written
<1>7. Kinds' /\ Dates'
  <2>1. \A q \in Procs : wrote'[q] \in BOOLEAN /\ call'[q].keys \subseteq Keys
    BY <1>1, <1>2 DEF Done, IInv, Funs, Kinds
  <2> QED
    BY <1>1, <1>4, <1>5, <2>1 DEF IInv, Kinds, Dates
<1>8. Solo' /\ ServerCalls' /\ ShellCalls'
  BY <1>1, <1>2, <1>3, <1>4 DEF IInv, Solo, ServerCalls, ShellCalls, Idle
<1>9. OwedHeld' /\ Gone'
  BY <1>1, <1>4 DEF IInv, OwedHeld, HeldIn, Gone, GoneStaysGone
<1> QED
  BY <1>6, <1>7, <1>8, <1>9 DEF IInv

LEMMA RenameFailsStep ==
  ASSUME IInv, Commands = "stopped", NEW p \in Procs, RenameFails(p)
  PROVE  IInv'
<1>1. /\ Writing(p) /\ Done(p) /\ cache' = [cache EXCEPT ![p] = Kept(p)]
      /\ UNCHANGED <<disk, tmp, up, asks, owed, out, dead>>
  BY DEF RenameFails, files, ghosts
<1>2. CASE p = "server"
  <2>1. up = TRUE
    BY <1>1, <1>2, WritingFacts DEF IInv, Kinds
  <2>2. cache' = cache
    BY <1>1, <1>2 DEF Kept, IInv, Funs, IsCache
  <2> QED
    BY <1>1, <1>2, <2>1, <2>2, ServerEnds
<1>3. CASE p = "shell"
  <2>1. cache' = [cache EXCEPT !["shell"] = [f \in Files |-> None]]
    BY <1>1, <1>3 DEF Kept
  <2>2. /\ IsCache(cache') /\ \A f \in Files : cache'["shell"][f] = None
        /\ cache'["server"] = cache["server"]
    BY <2>1, CachesGone
  <2>3. ~Idle("shell")
    BY <1>1, <1>3, WritingFacts
  <2> QED
    BY <1>1, <1>3, <2>2, <2>3, ShellEnds
<1> QED
  BY <1>2, <1>3

LEMMA StopStep ==
  ASSUME IInv, Commands = "stopped", NEW p \in Procs, Stop(p)
  PROVE  IInv'
<1>1. /\ Done(p) /\ cache' = [cache EXCEPT ![p] = [f \in Files |-> None]]
      /\ up' = (up /\ p # "server")
      /\ UNCHANGED <<disk, tmp, asks, owed, out, dead>>
  BY DEF Stop, files, ghosts
<1>2. CASE p = "server"
  <2>1. up /\ up' = FALSE
    BY <1>1, <1>2 DEF Stop
  <2> QED
    BY <1>1, <1>2, <2>1, ServerEnds
<1>3. CASE p = "shell"
  <2>1. ~Idle("shell") /\ up' = up
    BY <1>1, <1>3 DEF Stop, IInv, Kinds
  <2>2. /\ IsCache(cache') /\ \A f \in Files : cache'["shell"][f] = None
        /\ cache'["server"] = cache["server"]
    BY <1>1, <1>3, CachesGone
  <2> QED
    BY <1>1, <1>3, <2>1, <2>2, ShellEnds
<1> QED
  BY <1>2, <1>3

LEMMA BootStep ==
  ASSUME IInv, Commands = "stopped", Boot
  PROVE  IInv'
<1>1. /\ ~up /\ Idle("shell") /\ up' = TRUE
      /\ UNCHANGED <<disk, tmp, cache, todo, wrote, call, asks, owed, out, dead>>
  BY DEF Boot, Alone, files, ghosts
<1>2. Funs' /\ Kinds' /\ Dates' /\ Written'
  BY <1>1 DEF IInv, Funs, Kinds, Dates, Written, Target
<1>3. Solo' /\ ServerCalls' /\ ShellCalls'
  BY <1>1 DEF IInv, Solo, ServerCalls, ShellCalls, Idle
<1>4. OwedHeld' /\ Gone'
  BY <1>1 DEF IInv, OwedHeld, HeldIn, Gone, GoneStaysGone
<1> QED
  BY <1>2, <1>3, <1>4 DEF IInv

LEMMA InitIInv == Init => IInv
<1> SUFFICES ASSUME Init PROVE IInv
  OBVIOUS
<1>1. /\ disk = [f \in Files |-> disk[f]] /\ DOMAIN disk["live"] = {}
      /\ disk["bin"] = [k \in Before |-> [role |-> "bundle", at |-> 0]]
      /\ disk["live"] = Empty
  BY DEF Init, Empty
<1>2. disk["live"] \in LiveStores
  <2>1. Empty \in [{} -> Roles] /\ DOMAIN Empty = {}
    BY DEF Empty
  <2> QED
    BY <1>1, <2>1, LiveStore
<1>3. disk["bin"] \in BinStores /\ DOMAIN disk["bin"] = Before /\ Dated(disk["bin"], 0)
  <2>1. [role |-> "bundle", at |-> 0] \in Wallet
    BY KeystoreAssumption DEF Wallet
  <2>2. disk["bin"] \in [Before -> Wallet] /\ DOMAIN disk["bin"] = Before
    BY <1>1, <2>1
  <2>3. \A k \in Before : disk["bin"][k].at = 0
    BY <1>1
  <2> QED
    BY <2>2, <2>3, BinStore, KeystoreAssumption DEF Dated
<1>4. /\ tmp = [f \in Files |-> None]
      /\ cache = [p \in Procs |-> [f \in Files |-> None]]
      /\ todo = [p \in Procs |-> <<>>] /\ wrote = [p \in Procs |-> FALSE]
      /\ call = [p \in Procs |-> NoCall] /\ up = TRUE /\ asks = 0
      /\ owed = Before /\ out = {} /\ dead = {}
  BY DEF Init
<1>5. NoCall.kind = "none" /\ NoCall.keys = {}
  BY DEF NoCall
<1>6. Funs
  BY <1>1, <1>4 DEF Funs, IsCache
<1>7. Kinds /\ Dates
  BY <1>2, <1>3, <1>4, <1>5, KeystoreAssumption DEF Kinds, Dates, IsStore
<1>8. Written /\ Solo /\ ServerCalls /\ ShellCalls
  BY <1>4, <1>5 DEF Written, Solo, ServerCalls, ShellCalls, Idle
<1>9. OwedHeld /\ Gone
  BY <1>3, <1>4 DEF OwedHeld, HeldIn, Gone, GoneStaysGone
<1> QED
  BY <1>6, <1>7, <1>8, <1>9 DEF IInv

LEMMA NextIInv == Commands = "stopped" /\ IInv /\ [Next]_vars => IInv'
<1> SUFFICES ASSUME Commands = "stopped", IInv, [Next]_vars PROVE IInv'
  OBVIOUS
<1>1. CASE UNCHANGED vars
  BY <1>1 DEF vars, IInv, Funs, Kinds, Dates, Written, Solo, ServerCalls, ShellCalls,
              OwedHeld, HeldIn, Gone, GoneStaysGone, Idle, Target
<1>2. CASE \E p \in Procs, f \in Files : Load(p, f)
  BY <1>2, LoadStep
<1>3. CASE \E S \in SUBSET Keys \ {{}}, role \in Roles : Generate(S, role)
  BY <1>3, GenerateStep
<1>4. CASE \E k \in Keys, role \in Roles : ImportKey(k, role) \/ SetRole(k, role)
  BY <1>4, ImportKeyStep, SetRoleStep
<1>5. CASE \E k \in Keys : Remove(k) \/ Restore(k) \/ Purge(k)
  BY <1>5, RemoveStep, RestoreStep, PurgeStep
<1>6. CASE \E kind \in {"restore", "purge"}, k \in Keys : Command(kind, k)
  BY <1>6, CommandStep
<1>7. CASE \E p \in Procs : \/ WriteTmp(p) \/ WriteFails(p) \/ Rename(p)
                           \/ RenameFails(p) \/ Stop(p)
  BY <1>7, WriteTmpStep, WriteFailsStep, RenameStep, RenameFailsStep, StopStep
<1>8. CASE Boot
  BY <1>8, BootStep
<1> QED
  BY <1>1, <1>2, <1>3, <1>4, <1>5, <1>6, <1>7, <1>8 DEF Next

\* With the commands run while the server is stopped, a key the user was told is
\* his is in one of the two files, whatever write fails and whichever process dies.
THEOREM KeysAreKept == Commands = "stopped" => (Spec => []KeyKept)
<1> SUFFICES ASSUME Commands = "stopped" PROVE Spec => []KeyKept
  OBVIOUS
<1>1. IInv => KeyKept
  BY DEF IInv, OwedHeld, HeldIn, KeyKept
<1>2. IInv /\ [Next]_vars => IInv'
  BY NextIInv
<1> QED
  BY <1>1, <1>2, InitIInv, PTL DEF Spec

\* What a delete or a purge took away, with an answer, does not come back.
THEOREM GoneForGood == Commands = "stopped" => (Spec => []GoneStaysGone)
<1> SUFFICES ASSUME Commands = "stopped" PROVE Spec => []GoneStaysGone
  OBVIOUS
<1>1. IInv => GoneStaysGone
  BY DEF IInv, Gone
<1>2. IInv /\ [Next]_vars => IInv'
  BY NextIInv
<1> QED
  BY <1>1, <1>2, InitIInv, PTL DEF Spec
=============================================================================
