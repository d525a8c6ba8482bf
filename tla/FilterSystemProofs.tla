------------------------- MODULE FilterSystemProofs -------------------------
(***************************************************************************)
(* Proofs about FilterSystem, for any clients, events and chain of headers *)
(* with its forks: who is sent what by the event loop, and where the walk  *)
(* of lightFilterNewHead leads light clients.                              *)
(***************************************************************************)
EXTENDS FilterSystem, TLAPS, SequenceTheorems

-----------------------------------------------------------------------------
(* What is kept of a subscription is what its wish asks for *)

\* The parts of a wish.
LEMMA WishParts ==
    ASSUME NEW w \in Wishes
    PROVE  /\ w.kind \in {"logs", "heads", "txs"}
           /\ w.from \in Int \/ (w.from = None /\ w.from \notin Int)
           /\ w.to \in Int \/ (w.to = None /\ w.to \notin Int)
BY FilterAssumption DEF Wishes

\* The type of a subscription says which blocks it wants logs of (SubscribeLogs).
LEMMA LogTypes ==
    ASSUME NEW w \in Wishes, w.kind = "logs"
    PROVE  /\ TypeOf(w) \in {"logs", "pendingLogs", "minedAndPendingLogs", None}
           /\ TypeOf(w) \in {"logs", "minedAndPendingLogs"} => w.from # Pending
           /\ TypeOf(w) = "pendingLogs" => w.from = Pending
           /\ TypeOf(w) \in {"pendingLogs", "minedAndPendingLogs"} => w.to = Pending
           /\ TypeOf(w) = "logs" => w.to # Pending
<1> DEFINE from == IF w.from = None THEN Latest ELSE w.from
           to   == IF w.to = None THEN Latest ELSE w.to
<1>1. from \in Int /\ to \in Int /\ (w.from = Pending <=> from = Pending)
      /\ (w.to = Pending <=> to = Pending)
    BY WishParts, FilterAssumption DEF Latest, Pending
<1>2. TypeOf(w) = SubscribeLogs(w)
    BY DEF TypeOf
<1>3. None \notin {"logs", "pendingLogs", "minedAndPendingLogs"}
    BY FilterAssumption DEF Types
<1> HIDE DEF from, to
<1>4. SubscribeLogs(w) =
         CASE from = Pending /\ to = Pending -> "pendingLogs"
           [] from = Latest /\ to = Latest -> "logs"
           [] from >= 0 /\ to >= from -> "logs"
           [] from >= Latest /\ to = Pending -> "minedAndPendingLogs"
           [] from >= 0 /\ to = Latest -> "logs"
           [] OTHER -> None
    BY DEF SubscribeLogs, from, to
<1>5. CASE from = Pending /\ to = Pending
    BY <1>1, <1>2, <1>3, <1>4, <1>5 DEF Pending, Latest
<1>6. CASE from >= Latest /\ to = Pending
    BY <1>1, <1>2, <1>3, <1>4, <1>6 DEF Pending, Latest
<1>7. CASE to # Pending /\ ((from = Latest /\ to = Latest) \/ (from >= 0 /\ to >= from) \/ (from >= 0 /\ to = Latest))
    BY <1>1, <1>2, <1>3, <1>4, <1>7 DEF Pending, Latest
<1>8. CASE /\ ~(from = Pending /\ to = Pending) /\ ~(from >= Latest /\ to = Pending)
           /\ ~(from = Latest /\ to = Latest) /\ ~(from >= 0 /\ to >= from)
           /\ ~(from >= 0 /\ to = Latest)
    BY <1>1, <1>2, <1>3, <1>4, <1>8 DEF Pending, Latest
<1>9. from >= 0 /\ to >= from => to # Pending
    BY <1>1 DEF Pending
<1>10. (from >= 0 /\ to = Latest) \/ (from = Latest /\ to = Latest) => to # Pending
    BY DEF Pending, Latest
<1> QED  BY <1>5, <1>6, <1>7, <1>8, <1>9, <1>10

\* The clients whose wish an event meets are those the loop finds for it.
LEMMA FoundAreWanting ==
    ASSUME TypeOK, IndexInv, NEW c \in Clients, NEW ev \in Item
    PROVE  /\ ev.src \in {"logs", "rmLogs"} =>
                (c \in handleLogs(ev) <=> pc[c] \in Installed /\ Wanted(setup.wish[c], ev))
           /\ ev.src = "pendingLogs" =>
                (c \in handlePendingLogs(ev) <=> pc[c] \in Installed /\ Wanted(setup.wish[c], ev))
           /\ ev.src = "light" =>
                (c \in index["logs"] <=> pc[c] \in Installed /\ Wanted(setup.wish[c], ev))
           /\ ev.src = "chain" =>
                (c \in index["blocks"] <=> pc[c] \in Installed /\ Wanted(setup.wish[c], ev))
           /\ ev.src = "txs" =>
                (c \in index["txs"] <=> pc[c] \in Installed /\ Wanted(setup.wish[c], ev))
<1> DEFINE w == setup.wish[c]
<1>1. CASE pc[c] \notin Installed
    BY <1>1 DEF IndexInv, handleLogs, handlePendingLogs, Buckets, Types
<1>2. CASE pc[c] \in Installed
    <2>1. w \in Wishes /\ typ[c] = TypeOf(w) /\ typ[c] \in Types
        BY <1>2, FilterAssumption DEF TypeOK, IndexInv, Installed
    <2>2. \A b \in Buckets : c \in index[b] <=> b \in BucketsOf(typ[c])
        BY <1>2 DEF IndexInv
    <2>3. ev.src \in Sources \cup {"light"} /\ ev.block \in Headers /\ number[ev.block] \in Nat
        BY FilterAssumption DEF Item
    <2>4. CASE w.kind = "heads"
        <3>1. typ[c] = "blocks"
            BY <2>1, <2>4 DEF TypeOf
        <3>2. Wanted(w, ev) <=> ev.src = "chain"
            BY <2>4 DEF Wanted
        <3> QED  BY <1>2, <2>2, <3>1, <3>2 DEF BucketsOf, Buckets, Types, handleLogs, handlePendingLogs
    <2>5. CASE w.kind = "txs"
        <3>1. typ[c] = "txs"
            BY <2>1, <2>5 DEF TypeOf
        <3>2. Wanted(w, ev) <=> ev.src = "txs"
            BY <2>5 DEF Wanted
        <3> QED  BY <1>2, <2>2, <3>1, <3>2 DEF BucketsOf, Buckets, Types, handleLogs, handlePendingLogs
    <2>6. CASE w.kind = "logs"
        <3>1. /\ typ[c] \in {"logs", "pendingLogs", "minedAndPendingLogs"}
              /\ typ[c] \in {"logs", "minedAndPendingLogs"} => w.from # Pending
              /\ typ[c] = "pendingLogs" => w.from = Pending
              /\ typ[c] \in {"pendingLogs", "minedAndPendingLogs"} => w.to = Pending
              /\ typ[c] = "logs" => w.to # Pending
            BY <2>1, <2>6, LogTypes, FilterAssumption DEF Types
        <3>2. Wanted(w, ev) <=>
                 \/ ev.src = "light" /\ w.from # Pending
                 \/ ev.src = "pendingLogs" /\ w.to = Pending
                 \/ /\ ev.src \in {"logs", "rmLogs"}
                    /\ w.from # Pending
                    /\ w.from \in Nat => number[ev.block] >= w.from
                    /\ w.to \in Nat => number[ev.block] <= w.to
            BY <2>6 DEF Wanted
        <3>3. c \in index["logs"] <=> w.from # Pending
            BY <2>2, <3>1 DEF BucketsOf, Buckets, Types
        <3>4. c \in index["pendingLogs"] <=> w.to = Pending
            BY <2>2, <3>1 DEF BucketsOf, Buckets, Types
        <3>5. c \notin index["txs"] /\ c \notin index["blocks"]
            BY <2>2, <3>1 DEF BucketsOf, Buckets, Types
        <3>6. c \in handleLogs(ev) <=>
                 /\ w.from # Pending
                 /\ w.from \in Nat => number[ev.block] >= w.from
                 /\ w.to \in Nat => number[ev.block] <= w.to
            <4>1. w.from \in Nat => (w.from <= number[ev.block] <=> number[ev.block] >= w.from)
                BY <2>3
            <4> QED  BY <3>3, <4>1 DEF handleLogs, filterLogs
        <3>7. c \in handlePendingLogs(ev) <=> w.to = Pending
            <4>1. w.to = Pending => filterLogs(None, w.to, ev.block)
                BY FilterAssumption DEF filterLogs, Pending
            <4> QED  BY <3>4, <4>1 DEF handlePendingLogs
        <3> QED  BY <1>2, <3>2, <3>3, <3>5, <3>6, <3>7
    <2> QED  BY <2>1, <2>4, <2>5, <2>6, WishParts
<1> QED  BY <1>1, <1>2

-----------------------------------------------------------------------------
(* Who is sent what *)

\* The parts of the invariant about what is sent.
SendInv == NoneAfterReturn /\ PlaceInv /\ SentInOrder

\* Positions of handled that are there already keep what they hold.
LEMMA HandledGrows ==
    ASSUME NEW s \in Seq(Item), NEW item \in Item
    PROVE  LET t == Append(s, item) IN
           /\ t \in Seq(Item) /\ Len(t) = Len(s) + 1 /\ Len(s) \in Nat
           /\ t[Len(s) + 1] = item
           /\ \A i \in 1 .. Len(s) : t[i] = s[i]
OBVIOUS

\* When the loop has nothing left to send and takes the next item up, those it is to
\* send it to are the installed ones that want it.
LEMMA HandlesKeeps ==
    ASSUME TypeOK, SendInv, todo = {}, NEW item \in Item, NEW to \in SUBSET Clients,
           Handles(item, to), UNCHANGED <<setup, pc, history>>,
           loop' \in {"select", "walk"},
           \A c \in Clients : c \in to <=> pc[c] \in Installed /\ Wanted(setup.wish[c], item)
    PROVE  SendInv' /\ handled' \in Seq(Item) /\ todo' \subseteq Clients
<1> DEFINE L == Len(handled)
<1>1. /\ handled' \in Seq(Item) /\ Len(handled') = L + 1 /\ L \in Nat
      /\ handled'[L + 1] = item /\ \A i \in 1 .. L : handled'[i] = handled[i]
    BY HandledGrows DEF TypeOK, Handles
<1>2. todo' = to /\ setup' = setup /\ pc' = pc /\ since' = since /\ until' = until /\ got' = got
    BY DEF Handles, history
<1>3. \A c \in Clients : /\ since[c] \in Nat /\ until[c] \in Nat /\ got[c] \in Seq(Nat)
                          /\ since[c] <= L /\ until[c] <= L
    BY DEF TypeOK, SendInv, PlaceInv
<1> HIDE DEF L
<1>4. NoneAfterReturn'
    BY <1>2 DEF NoneAfterReturn
<1>5. PlaceInv'
    BY <1>1, <1>2, <1>3 DEF PlaceInv, SendInv
<1>6. SentInOrder'
    <2> SUFFICES ASSUME NEW c \in Clients, pc[c] \in Installed \cup {"uninstalled", "done"}
                 PROVE  LET sent == SentOrOwed(c)'
                        IN /\ {sent[i] : i \in DOMAIN sent} = WantedOf(c)'
                           /\ \A i, j \in DOMAIN sent : i < j => sent[i] < sent[j]
        BY <1>2 DEF SentInOrder
    <2> DEFINE g == got[c]
               W == WantedOf(c)
    <2>1. g \in Seq(Nat) /\ {g[i] : i \in DOMAIN g} = W
          /\ \A i, j \in DOMAIN g : i < j => g[i] < g[j]
        BY <1>3 DEF SendInv, SentInOrder, SentOrOwed
    <2>2. CASE pc[c] \notin Installed
        <3>1. SentOrOwed(c)' = g
            BY <1>2, <2>2 DEF SentOrOwed
        <3>2. WantedOf(c)' = {i \in since[c] + 1 .. until[c] : Wanted(setup.wish[c], handled'[i])}
            BY <1>2, <2>2 DEF WantedOf
        <3>3. W = {i \in since[c] + 1 .. until[c] : Wanted(setup.wish[c], handled[i])}
            BY <2>2 DEF WantedOf
        <3>4. \A i \in since[c] + 1 .. until[c] : handled'[i] = handled[i]
            BY <1>1, <1>3
        <3>5. WantedOf(c)' = W
            BY <3>2, <3>3, <3>4
        <3> QED  BY <2>1, <3>1, <3>5
    <2>3. CASE pc[c] \in Installed
        <3>1. WantedOf(c)' = {i \in since[c] + 1 .. L + 1 : Wanted(setup.wish[c], handled'[i])}
            BY <1>1, <1>2, <2>3 DEF WantedOf
        <3>2. W = {i \in since[c] + 1 .. L : Wanted(setup.wish[c], handled[i])}
            BY <2>3 DEF WantedOf, L
        <3>3. \A i \in since[c] + 1 .. L : i # L + 1 /\ handled'[i] = handled[i]
            BY <1>1, <1>3
        <3>4. \A i : i \in since[c] + 1 .. L + 1 <=> (i \in since[c] + 1 .. L \/ i = L + 1)
            BY <1>1, <1>3
        <3>5. WantedOf(c)' = IF c \in to THEN W \cup {L + 1} ELSE W
            BY <1>1, <2>3, <3>1, <3>2, <3>3, <3>4
        <3>6. SentOrOwed(c)' = IF c \in to THEN Append(g, L + 1) ELSE g
            BY <1>1, <1>2 DEF SentOrOwed
        <3>7. CASE c \notin to
            BY <2>1, <3>5, <3>6, <3>7
        <3>8. CASE c \in to
            <4> DEFINE n == Len(g)
                       a == Append(g, L + 1)
            <4>1. /\ n \in Nat /\ DOMAIN g = 1 .. n /\ DOMAIN a = 1 .. n + 1
                  /\ a[n + 1] = L + 1 /\ \A i \in 1 .. n : a[i] = g[i]
                BY <1>1, <2>1
            <4>2. \A i \in 1 .. n : g[i] \in W
                BY <2>1, <4>1
            <4>3. \A x \in W : x \in Nat /\ x < L + 1
                BY <1>1, <1>3, <3>2
            <4>4. \A i \in 1 .. n : g[i] \in Nat /\ g[i] < L + 1
                BY <4>2, <4>3
            <4> HIDE DEF n, a, g, W
            <4>5. \A i : i \in 1 .. n + 1 <=> i \in 1 .. n \/ i = n + 1
                BY <4>1
            <4>6. {a[i] : i \in 1 .. n + 1} = {g[i] : i \in 1 .. n} \cup {L + 1}
                BY <4>1, <4>5
            <4>7. \A i, j \in 1 .. n + 1 : i < j => a[i] < a[j]
                <5> SUFFICES ASSUME NEW i \in 1 .. n + 1, NEW j \in 1 .. n + 1, i < j
                             PROVE  a[i] < a[j]
                    OBVIOUS
                <5>1. i \in 1 .. n
                    BY <4>1
                <5>2. CASE j = n + 1
                    BY <4>1, <4>4, <5>1, <5>2
                <5>3. CASE j \in 1 .. n
                    BY <2>1, <4>1, <5>1, <5>3
                <5> QED  BY <4>5, <5>2, <5>3
            <4>8. {a[i] : i \in DOMAIN a} = W \cup {L + 1}
                BY <2>1, <4>1, <4>6
            <4>9. SentOrOwed(c)' = a /\ WantedOf(c)' = W \cup {L + 1}
                BY <3>5, <3>6, <3>8 DEF a
            <4>10. \A i, j \in DOMAIN a : i < j => a[i] < a[j]
                BY <4>1, <4>7
            <4> QED  BY <4>8, <4>9, <4>10
        <3> QED  BY <3>7, <3>8
    <2> QED  BY <2>2, <2>3
<1> QED  BY <1>1, <1>2, <1>4, <1>5, <1>6 DEF SendInv

\* Sending turns what is owed into what is sent.
LEMMA SendsKeeps ==
    ASSUME TypeOK, SendInv, NEW c \in Clients, Sends(c)
    PROVE  SendInv' /\ todo' \subseteq Clients /\ got' \in [Clients -> Seq(Nat)]
<1>1. /\ c \in todo /\ pc[c] \in {"reading", "unsubscribing"}
      /\ got' = [got EXCEPT ![c] = Append(@, Len(handled))] /\ todo' = todo \ {c}
      /\ UNCHANGED <<setup, pc, handled, since, until, loop>>
    BY DEF Sends, Receives, clientVars
<1>2. got \in [Clients -> Seq(Nat)] /\ Len(handled) \in Nat
    BY DEF TypeOK
<1>3. got' \in [Clients -> Seq(Nat)]
    BY <1>1, <1>2
<1>4. \A d \in Clients : SentOrOwed(d)' = SentOrOwed(d) /\ WantedOf(d)' = WantedOf(d)
    <2> TAKE d \in Clients
    <2>1. SentOrOwed(d)' = SentOrOwed(d)
        BY <1>1, <1>2 DEF SentOrOwed
    <2>2. WantedOf(d)' = WantedOf(d)
        BY <1>1 DEF WantedOf
    <2> QED  BY <2>1, <2>2
<1>5. SentInOrder'
    BY <1>1, <1>4 DEF SendInv, SentInOrder
<1>6. PlaceInv'
    BY <1>1, <1>2 DEF SendInv, PlaceInv
<1>7. NoneAfterReturn'
    BY <1>1 DEF SendInv, NoneAfterReturn
<1> QED  BY <1>1, <1>3, <1>5, <1>6, <1>7 DEF SendInv, TypeOK

\* A subscription begins with nothing sent and nothing to be sent.
LEMMA InstallsKeeps ==
    ASSUME TypeOK, SendInv, NEW c \in Clients, Installs(c)
    PROVE  SendInv'
<1>1. /\ loop = "select" /\ todo = {} /\ pc[c] = "installing"
      /\ pc' = [pc EXCEPT ![c] = "installed"] /\ since' = [since EXCEPT ![c] = Len(handled)]
      /\ UNCHANGED <<setup, loop, todo, handled, until, got>>
    BY DEF Installs, Idle, loopVars
<1>2. /\ Len(handled) \in Nat /\ since \in [Clients -> Nat]
      /\ pc \in [Clients -> {"new", "refused", "installing", "installed", "reading",
                             "unsubscribing", "uninstalled", "done"}]
    BY DEF TypeOK
<1>3. /\ pc'[c] = "installed" /\ since'[c] = Len(handled)
      /\ \A d \in Clients : d # c => pc'[d] = pc[d] /\ since'[d] = since[d]
    BY <1>1, <1>2
<1>4. SentInOrder'
    <2> SUFFICES ASSUME NEW d \in Clients, pc'[d] \in Installed \cup {"uninstalled", "done"}
                 PROVE  LET sent == SentOrOwed(d)'
                        IN /\ {sent[i] : i \in DOMAIN sent} = WantedOf(d)'
                           /\ \A i, j \in DOMAIN sent : i < j => sent[i] < sent[j]
        BY DEF SentInOrder
    <2>1. CASE d = c
        <3>1. SentOrOwed(d)' = <<>>
            BY <1>1, <2>1 DEF SentOrOwed, SendInv, PlaceInv
        <3>2. WantedOf(d)' = {}
            <4>1. Len(handled) + 1 .. Len(handled) = {}
                BY <1>2
            <4>2. WantedOf(d)' = {i \in Len(handled) + 1 .. Len(handled) : Wanted(setup.wish[d], handled[i])}
                BY <1>1, <1>3, <2>1 DEF WantedOf, Installed
            <4> QED  BY <4>1, <4>2
        <3> QED  BY <3>1, <3>2
    <2>2. CASE d # c
        <3>1. SentOrOwed(d)' = SentOrOwed(d) /\ WantedOf(d)' = WantedOf(d) /\ pc'[d] = pc[d]
            BY <1>1, <1>3, <2>2 DEF SentOrOwed, WantedOf
        <3> QED  BY <3>1 DEF SendInv, SentInOrder
    <2> QED  BY <2>1, <2>2
<1>5. PlaceInv'
    <2> SUFFICES ASSUME NEW d \in Clients
                 PROVE  /\ since'[d] <= Len(handled) /\ until[d] <= Len(handled)
                        /\ pc'[d] \in {"new", "refused", "installing"} => got[d] = <<>>
        BY <1>1 DEF PlaceInv
    <2>1. CASE d = c
        BY <1>2, <1>3, <2>1 DEF SendInv, PlaceInv
    <2>2. CASE d # c
        BY <1>3, <2>2 DEF SendInv, PlaceInv
    <2> QED  BY <2>1, <2>2
<1>6. NoneAfterReturn'
    BY <1>1 DEF NoneAfterReturn
<1> QED  BY <1>4, <1>5, <1>6 DEF SendInv

\* It ends with all it wanted.
LEMMA UninstallsKeeps ==
    ASSUME TypeOK, SendInv, NEW c \in Clients, Uninstalls(c)
    PROVE  SendInv'
<1>1. /\ loop = "select" /\ todo = {} /\ pc[c] = "unsubscribing"
      /\ pc' = [pc EXCEPT ![c] = "uninstalled"] /\ until' = [until EXCEPT ![c] = Len(handled)]
      /\ UNCHANGED <<setup, loop, todo, handled, since, got>>
    BY DEF Uninstalls, Idle, loopVars
<1>2. /\ Len(handled) \in Nat /\ until \in [Clients -> Nat]
      /\ pc \in [Clients -> {"new", "refused", "installing", "installed", "reading",
                             "unsubscribing", "uninstalled", "done"}]
    BY DEF TypeOK
<1>3. /\ pc'[c] = "uninstalled" /\ until'[c] = Len(handled)
      /\ \A d \in Clients : d # c => pc'[d] = pc[d] /\ until'[d] = until[d]
    BY <1>1, <1>2
<1>4. \A d \in Clients : SentOrOwed(d)' = SentOrOwed(d)
    BY <1>1 DEF SentOrOwed
<1>5. \A d \in Clients : WantedOf(d)' = WantedOf(d)
    <2> TAKE d \in Clients
    <2>1. CASE d = c
        BY <1>1, <1>3, <2>1 DEF WantedOf, Installed
    <2>2. CASE d # c
        BY <1>1, <1>3, <2>2 DEF WantedOf
    <2> QED  BY <2>1, <2>2
<1>6. SentInOrder'
    <2>1. \A d \in Clients : pc'[d] \in Installed \cup {"uninstalled", "done"} =>
                             pc[d] \in Installed \cup {"uninstalled", "done"}
        BY <1>1, <1>3 DEF Installed
    <2> QED  BY <1>4, <1>5, <2>1 DEF SendInv, SentInOrder
<1>7. PlaceInv'
    <2> SUFFICES ASSUME NEW d \in Clients
                 PROVE  /\ since[d] <= Len(handled) /\ until'[d] <= Len(handled)
                        /\ pc'[d] \in {"new", "refused", "installing"} => got[d] = <<>>
        BY <1>1 DEF PlaceInv
    <2>1. CASE d = c
        BY <1>2, <1>3, <2>1 DEF SendInv, PlaceInv
    <2>2. CASE d # c
        BY <1>3, <2>2 DEF SendInv, PlaceInv
    <2> QED  BY <2>1, <2>2
<1>8. NoneAfterReturn'
    BY <1>1 DEF NoneAfterReturn
<1> QED  BY <1>6, <1>7, <1>8 DEF SendInv

\* A step of a client's own leaves it installed or not installed.
LEMMA ClientKeeps ==
    ASSUME TypeOK, SendInv, UNCHANGED <<setup, loop, todo, handled, history>>,
           \A c \in Clients :
              /\ pc'[c] \in Installed <=> pc[c] \in Installed
              /\ pc'[c] \in {"uninstalled", "done"} <=> pc[c] \in {"uninstalled", "done"}
              /\ pc'[c] \in {"new", "refused", "installing"} => pc[c] \in {"new", "refused", "installing"}
    PROVE  SendInv'
<1>1. \A d \in Clients : SentOrOwed(d)' = SentOrOwed(d) /\ WantedOf(d)' = WantedOf(d)
    BY DEF SentOrOwed, WantedOf, history
<1>2. SentInOrder'
    BY <1>1 DEF SendInv, SentInOrder
<1>3. PlaceInv'
    BY DEF SendInv, PlaceInv, history
<1>4. NoneAfterReturn'
    BY DEF SendInv, NoneAfterReturn, TypeOK
<1> QED  BY <1>2, <1>3, <1>4 DEF SendInv

-----------------------------------------------------------------------------
(* Where light clients are led *)

\* The parts of the invariant about the walk.
LightInv == WalkInv /\ LightFollows /\ GenesisStays

\* A way goes on with the parent of where it ends.
LEMMA WayAppend ==
    ASSUME NEW hs \in Seq(Headers), NEW h \in Headers, IsWay(hs, h)
    PROVE  /\ Ends(hs, h) \in Headers
           /\ IsWay(Append(hs, Ends(hs, h)), h)
           /\ Ends(Append(hs, Ends(hs, h)), h) = parent[Ends(hs, h)]
           /\ Append(hs, Ends(hs, h)) \in Seq(Headers)
<1>1. CASE hs = <<>>
    BY <1>1, FilterAssumption DEF IsWay, Ends
<1>2. CASE hs # <<>>
    <2> DEFINE n == Len(hs)
               e == parent[hs[n]]
               t == Append(hs, e)
    <2>1. n \in Nat \ {0} /\ hs[n] \in Headers /\ e \in Headers
        BY <1>2, FilterAssumption
    <2>2. /\ t \in Seq(Headers) /\ Len(t) = n + 1 /\ t[n + 1] = e
          /\ \A i \in 1 .. n : t[i] = hs[i]
        BY <2>1
    <2>3. Ends(hs, h) = e
        BY <1>2 DEF Ends
    <2> HIDE DEF t, e
    <2>4. \A i \in 1 .. n - 1 : hs[i + 1] = parent[hs[i]]
        BY DEF IsWay
    <2>5. \A i \in 1 .. n : t[i + 1] = parent[t[i]]
        <3> TAKE i \in 1 .. n
        <3>1. CASE i = n
            BY <2>1, <2>2, <3>1 DEF e
        <3>2. CASE i \in 1 .. n - 1
            BY <2>1, <2>2, <2>4, <3>2
        <3> QED  BY <2>1, <3>1, <3>2
    <2>6. t[1] = h
        BY <1>2, <2>1, <2>2 DEF IsWay
    <2>7. IsWay(t, h) /\ Ends(t, h) = parent[e]
        BY <2>1, <2>2, <2>5, <2>6 DEF IsWay, Ends
    <2> QED  BY <2>1, <2>2, <2>3, <2>7 DEF t
<1> QED  BY <1>1, <1>2

\* One step along a way.
LEMMA WayTail ==
    ASSUME NEW hs \in Seq(Headers), NEW h \in Headers, IsWay(hs, h), hs # <<>>
    PROVE  /\ Head(hs) = h
           /\ IsWay(Tail(hs), parent[h])
           /\ Ends(Tail(hs), parent[h]) = Ends(hs, h)
           /\ Tail(hs) \in Seq(Headers)
<1> DEFINE n == Len(hs)
           t == Tail(hs)
<1>1. n \in Nat \ {0} /\ Head(hs) = hs[1] /\ t \in Seq(Headers) /\ Len(t) = n - 1
      /\ \A i \in 1 .. n - 1 : t[i] = hs[i + 1]
    OBVIOUS
<1>2. hs[1] = h /\ \A i \in 1 .. n - 1 : hs[i + 1] = parent[hs[i]]
    BY DEF IsWay
<1> HIDE DEF t
<1>3. CASE n = 1
    <2>1. t = <<>>
        BY <1>1, <1>3
    <2>2. IsWay(t, parent[h])
        BY <2>1 DEF IsWay
    <2>3. Ends(t, parent[h]) = parent[h] /\ Ends(hs, h) = parent[h]
        BY <1>2, <1>3, <2>1 DEF Ends
    <2> QED  BY <1>1, <1>2, <2>2, <2>3 DEF t
<1>4. CASE n # 1
    <2>1. t # <<>> /\ t[1] = parent[h] /\ t[n - 1] = hs[n]
        BY <1>1, <1>2, <1>4
    <2>2. \A i \in 1 .. n - 2 : t[i + 1] = parent[t[i]]
        BY <1>1, <1>2
    <2> QED  BY <1>1, <1>2, <1>4, <2>1, <2>2 DEF IsWay, Ends, t
<1> QED  BY <1>3, <1>4

\* One step back along a way, from where it ends.
LEMMA WayFront ==
    ASSUME NEW hs \in Seq(Headers), NEW h \in Headers, IsWay(hs, h), hs # <<>>
    PROVE  LET f == SubSeq(hs, 1, Len(hs) - 1) IN
           /\ f \in Seq(Headers) /\ IsWay(f, h)
           /\ hs[Len(hs)] \in Headers /\ Ends(f, h) = hs[Len(hs)]
           /\ Ends(hs, h) = parent[hs[Len(hs)]]
<1> DEFINE n == Len(hs)
           f == SubSeq(hs, 1, n - 1)
<1>1. n \in Nat \ {0} /\ f \in Seq(Headers) /\ Len(f) = n - 1 /\ hs[n] \in Headers
      /\ \A i \in 1 .. n - 1 : f[i] = hs[i]
    <2>1. n \in Nat \ {0} /\ \A i \in 1 .. n : hs[i] \in Headers
        OBVIOUS
    <2>2. 1 \in Int /\ n - 1 \in Int /\ \A i \in 1 .. n - 1 : hs[i] \in Headers
        BY <2>1
    <2>3. /\ f \in Seq(Headers)
          /\ Len(f) = IF 1 <= n - 1 THEN n - 1 - 1 + 1 ELSE 0
          /\ \A i \in 1 .. n - 1 - 1 + 1 : f[i] = hs[1 + i - 1]
        BY <2>2, SubSeqProperties
    <2> HIDE DEF f, n
    <2>4. n - 1 - 1 + 1 = n - 1 /\ \A i \in 1 .. n - 1 : 1 + i - 1 = i
        BY <2>1
    <2>5. \A i \in 1 .. n - 1 : f[i] = hs[i]
        BY <2>3, <2>4
    <2>6. Len(f) = n - 1
        BY <2>1, <2>3
    <2>7. hs[n] \in Headers
        BY <2>1
    <2> QED  BY <2>1, <2>3, <2>5, <2>6, <2>7 DEF n
<1>2. hs[1] = h /\ \A i \in 1 .. n - 1 : hs[i + 1] = parent[hs[i]]
    BY DEF IsWay
<1>3. Ends(hs, h) = parent[hs[n]]
    BY DEF Ends
<1> HIDE DEF f
<1>4. CASE n = 1
    <2>1. f = <<>>
        BY <1>1, <1>4
    <2> QED  BY <1>1, <1>2, <1>3, <1>4, <2>1 DEF IsWay, Ends, f
<1>5. CASE n # 1
    <2>1. f # <<>> /\ f[1] = h /\ parent[f[n - 1]] = hs[n]
        BY <1>1, <1>2, <1>5
    <2>2. \A i \in 1 .. n - 2 : f[i + 1] = parent[f[i]]
        BY <1>1, <1>2
    <2> QED  BY <1>1, <1>2, <1>3, <1>5, <2>1, <2>2 DEF IsWay, Ends, f
<1> QED  BY <1>4, <1>5

\* What does not touch the walk keeps where it is.
LEMMA WalkKept ==
    ASSUME LightInv, UNCHANGED <<setup, loop, lastHead, told, walkVars>>
    PROVE  LightInv'
BY DEF LightInv, WalkInv, LightFollows, GenesisStays, walkVars

\* An event of the chain begins a walk from the head that light clients were led to.
LEMMA WalkBegins ==
    ASSUME FilterInv, handleChainEvent
    PROVE  /\ LightInv' /\ loop' \in {"select", "walk"}
           /\ lastHead' \in Headers \cup {None} /\ told' \in Headers \cup {None}
           /\ oldh' \in Headers \cup {None} /\ newh' \in Headers \cup {None}
           /\ UNCHANGED <<oldHeaders, newHeaders>>
<1> DEFINE ev == Head(chan["chain"])
           follows == setup.light /\ index["logs"] # {}
           walks == follows /\ lastHead # None
<1>1. /\ loop = "select" /\ setup' = setup /\ chan["chain"] # <<>>
      /\ UNCHANGED <<oldHeaders, newHeaders>>
      /\ lastHead' = IF follows THEN ev.block ELSE lastHead
      /\ loop' = IF walks THEN "walk" ELSE loop
      /\ oldh' = IF walks THEN lastHead ELSE oldh
      /\ newh' = IF walks THEN ev.block ELSE newh
      /\ told' = IF follows /\ lastHead = None THEN ev.block ELSE told
    BY DEF handleChainEvent, Takes, Idle
<1>2. ev \in Item /\ ev.block \in Headers /\ ev.block # None
    <2>1. chan["chain"] \in Seq(Item)
        BY DEF FilterInv, TypeOK, Sources
    <2>2. ev \in Item
        BY <1>1, <2>1
    <2> QED  BY <2>2, FilterAssumption DEF Item
<1>3. /\ lastHead \in Headers \cup {None} /\ told \in Headers \cup {None}
      /\ oldh \in Headers \cup {None} /\ newh \in Headers \cup {None}
      /\ oldHeaders = <<>> /\ newHeaders = <<>>
      /\ setup.missing = {} => told = lastHead
    BY <1>1 DEF FilterInv, TypeOK, WalkInv, LightFollows
<1> HIDE DEF ev, follows, walks
<1>4. \A h : IsWay(<<>>, h) /\ Ends(<<>>, h) = h
    BY DEF IsWay, Ends
<1>5. walks => follows /\ lastHead # None
    BY DEF walks
<1>6. follows /\ ~walks => lastHead = None
    BY DEF walks
<1>7. WalkInv'
    BY <1>1, <1>2, <1>3, <1>4, <1>5, <1>6 DEF WalkInv
<1>8. LightFollows'
    BY <1>1, <1>2, <1>3, <1>5, <1>6 DEF LightFollows
<1>9. GenesisStays'
    BY <1>1 DEF FilterInv, GenesisStays
<1> QED  BY <1>1, <1>2, <1>3, <1>7, <1>8, <1>9 DEF LightInv

\* Only the genesis block has no block below it.
LEMMA AboveGenesis ==
    ASSUME NEW h \in Headers
    PROVE  /\ number[h] \in Nat /\ number[parent[h]] \in Nat
           /\ h # Genesis => number[h] > 0 /\ number[parent[h]] = number[h] - 1
           /\ number[h] > 0 => h # Genesis
<1>1. number[h] \in Nat /\ parent[h] \in Headers /\ number[parent[h]] \in Nat
    BY FilterAssumption
<1>2. number[Genesis] = 0
    BY FilterAssumption
<1>3. h # Genesis => number[h] = number[parent[h]] + 1
    BY FilterAssumption
<1> QED  BY <1>1, <1>2, <1>3

\* A round of the search goes down on the old chain, on the new one or on both, and
\* never below the genesis block.
LEMMA AncestorDescends ==
    ASSUME FilterInv, FindsAncestor
    PROVE  /\ number[oldh] \in Nat /\ number[newh] \in Nat
           /\ number[oldh'] \in Nat /\ number[newh'] \in Nat
           /\ number[oldh] >= number[newh] =>
                 oldh # Genesis /\ number[oldh'] = number[oldh] - 1
           /\ ~(number[oldh] >= number[newh]) => oldh' = oldh
           /\ number[oldh'] < number[newh] =>
                 newh # Genesis /\ number[newh'] <= number[newh] - 1
           /\ ~(number[oldh'] < number[newh]) => newh' = newh
<1> DEFINE back == number[oldh] >= number[newh]
           old1 == IF back THEN parent[oldh] ELSE oldh
           on   == number[old1] < number[newh]
<1>1. /\ loop = "walk" /\ oldh # newh /\ oldh' = old1
      /\ newh' = IF ~on THEN newh
                 ELSE IF parent[newh] \in setup.missing THEN old1 ELSE parent[newh]
    BY DEF FindsAncestor
<1>2. oldh \in Headers /\ newh \in Headers
    BY <1>1 DEF FilterInv, TypeOK, WalkInv
<1>3. /\ number[oldh] \in Nat /\ number[newh] \in Nat
      /\ number[parent[oldh]] \in Nat /\ number[parent[newh]] \in Nat
    BY <1>2, AboveGenesis
<1>4. back => oldh # Genesis
    <2> SUFFICES ASSUME back, oldh = Genesis PROVE FALSE
        OBVIOUS
    <2>1. number[newh] <= 0
        BY <1>2, <1>3, FilterAssumption
    <2>2. newh = Genesis
        BY <1>2, <1>3, <2>1, AboveGenesis
    <2> QED  BY <1>1, <2>2
<1>5. back => number[parent[oldh]] = number[oldh] - 1
    BY <1>2, <1>4, AboveGenesis
<1> HIDE DEF back
<1>6. number[old1] \in Nat
    BY <1>3
<1>7. on => newh # Genesis /\ number[parent[newh]] = number[newh] - 1
    <2> SUFFICES ASSUME on PROVE newh # Genesis /\ number[parent[newh]] = number[newh] - 1
        OBVIOUS
    <2>1. number[newh] > 0
        BY <1>3, <1>6
    <2> QED  BY <1>2, <2>1, AboveGenesis
<1>8. on => number[newh'] \in Nat /\ number[newh'] <= number[newh] - 1
    <2> SUFFICES ASSUME on PROVE number[newh'] \in Nat /\ number[newh'] <= number[newh] - 1
        OBVIOUS
    <2>1. number[old1] <= number[newh] - 1
        BY <1>3, <1>6
    <2>2. newh' = old1 \/ newh' = parent[newh]
        BY <1>1
    <2> QED  BY <1>3, <1>6, <1>7, <2>1, <2>2
<1> HIDE DEF old1, on
<1>9. (on <=> number[oldh'] < number[newh]) /\ (~on => newh' = newh) /\ number[oldh'] \in Nat
    BY <1>1, <1>6 DEF on
<1>10. (back => number[oldh'] = number[oldh] - 1) /\ (~back => oldh' = oldh)
    BY <1>1, <1>5 DEF old1
<1>11. back <=> number[oldh] >= number[newh]
    BY DEF back
<1>12. number[newh'] \in Nat
    BY <1>3, <1>8, <1>9
<1> QED  BY <1>3, <1>4, <1>7, <1>8, <1>9, <1>10, <1>11, <1>12

\* What is appended to a sequence without h and is not h leaves it without h.
LEMMA AddedAtEnd ==
    ASSUME NEW hs \in Seq(Headers), NEW e \in Headers, NEW h, e # h,
           \A i \in DOMAIN hs : hs[i] # h
    PROVE  \A i \in DOMAIN Append(hs, e) : Append(hs, e)[i] # h
OBVIOUS

\* A round of the search for the common ancestor lengthens the ways by where they end.
LEMMA AncestorKeeps ==
    ASSUME FilterInv, FindsAncestor
    PROVE  /\ LightInv'
           /\ oldh' \in Headers \cup {None} /\ newh' \in Headers \cup {None}
           /\ oldHeaders' \in Seq(Headers) /\ newHeaders' \in Seq(Headers)
<1> DEFINE back == number[oldh] >= number[newh]
           old1 == IF back THEN parent[oldh] ELSE oldh
           on   == number[old1] < number[newh]
<1>1. /\ loop = "walk" /\ oldh # newh
      /\ oldHeaders' = (IF back THEN Append(oldHeaders, oldh) ELSE oldHeaders)
      /\ oldh' = old1
      /\ newHeaders' = (IF on THEN Append(newHeaders, newh) ELSE newHeaders)
      /\ newh' = IF ~on THEN newh
                 ELSE IF parent[newh] \in setup.missing THEN old1 ELSE parent[newh]
      /\ UNCHANGED <<setup, loop, lastHead, told>>
    BY DEF FindsAncestor
<1>2. /\ oldh \in Headers /\ newh \in Headers /\ lastHead \in Headers
      /\ oldHeaders \in Seq(Headers) /\ newHeaders \in Seq(Headers)
      /\ lastHead # None
    BY <1>1 DEF FilterInv, TypeOK, WalkInv
<1>3. parent[oldh] \in Headers /\ parent[newh] \in Headers /\ old1 \in Headers
    BY <1>2, FilterAssumption
<1> HIDE DEF back, on
<1>4. /\ oldh' \in Headers /\ newh' \in Headers
      /\ oldHeaders' \in Seq(Headers) /\ newHeaders' \in Seq(Headers)
    BY <1>1, <1>2, <1>3
<1>5. ASSUME setup.missing = {}
      PROVE  /\ told # None
             /\ IsWay(oldHeaders', told) /\ Ends(oldHeaders', told) = oldh'
             /\ IsWay(newHeaders', lastHead) /\ Ends(newHeaders', lastHead) = newh'
    <2>1. /\ told \in Headers /\ told # None
          /\ IsWay(oldHeaders, told) /\ IsWay(newHeaders, lastHead)
          /\ Ends(oldHeaders, told) = oldh /\ Ends(newHeaders, lastHead) = newh
        BY <1>1, <1>5 DEF FilterInv, TypeOK, WalkInv
    <2>2. IsWay(Append(oldHeaders, oldh), told) /\ Ends(Append(oldHeaders, oldh), told) = parent[oldh]
        BY <1>2, <2>1, WayAppend
    <2>3. IsWay(Append(newHeaders, newh), lastHead)
          /\ Ends(Append(newHeaders, newh), lastHead) = parent[newh]
        BY <1>2, <2>1, WayAppend
    <2>4. parent[newh] \notin setup.missing
        BY <1>5
    <2> QED  BY <1>1, <2>1, <2>2, <2>3, <2>4
<1>6. WalkInv'
    BY <1>1, <1>2, <1>4, <1>5, FilterAssumption DEF WalkInv
<1>7. LightFollows'
    BY <1>1 DEF LightFollows
<1>8. GenesisStays'
    BY <1>1, <1>2, AncestorDescends, AddedAtEnd DEF FilterInv, GenesisStays, back
<1> QED  BY <1>4, <1>6, <1>7, <1>8 DEF LightInv

\* A block is rolled back when it is the one light clients were led to.
LEMMA RollKeeps ==
    ASSUME FilterInv, RollsBack
    PROVE  LightInv' /\ told' \in Headers \cup {None} /\ oldHeaders' \in Seq(Headers)
<1>1. /\ loop = "walk" /\ oldh = newh /\ oldHeaders # <<>>
      /\ told' = (IF told = Head(oldHeaders) THEN parent[Head(oldHeaders)] ELSE None)
      /\ oldHeaders' = Tail(oldHeaders)
      /\ UNCHANGED <<setup, loop, lastHead, oldh, newh, newHeaders>>
    BY DEF RollsBack, Walked, CallsBack
<1>2. /\ oldHeaders \in Seq(Headers) /\ Head(oldHeaders) \in Headers
      /\ Tail(oldHeaders) \in Seq(Headers) /\ parent[Head(oldHeaders)] \in Headers
      /\ lastHead # None /\ oldh # None /\ newh # None
    BY <1>1, FilterAssumption DEF FilterInv, TypeOK, WalkInv
<1>3. ASSUME setup.missing = {}
      PROVE  /\ told' \in Headers /\ IsWay(oldHeaders', told') /\ IsWay(newHeaders, lastHead)
             /\ Ends(oldHeaders', told') = Ends(newHeaders, lastHead)
    <2>1. /\ told \in Headers /\ IsWay(oldHeaders, told) /\ IsWay(newHeaders, lastHead)
          /\ Ends(oldHeaders, told) = Ends(newHeaders, lastHead)
        BY <1>1, <1>3 DEF FilterInv, TypeOK, WalkInv
    <2>2. /\ Head(oldHeaders) = told /\ IsWay(Tail(oldHeaders), parent[told])
          /\ Ends(Tail(oldHeaders), parent[told]) = Ends(oldHeaders, told)
        BY <1>1, <1>2, <2>1, WayTail
    <2> QED  BY <1>1, <1>2, <2>1, <2>2
<1>4. WalkInv'
    BY <1>1, <1>2, <1>3, FilterAssumption DEF WalkInv
<1>5. LightFollows'
    BY <1>1 DEF LightFollows
<1>6. GenesisStays'
    <2>1. \A i \in 1 .. Len(oldHeaders) : oldHeaders[i] # Genesis
        BY <1>2 DEF FilterInv, GenesisStays
    <2>2. /\ Len(Tail(oldHeaders)) = Len(oldHeaders) - 1
          /\ \A i \in 1 .. Len(Tail(oldHeaders)) : Tail(oldHeaders)[i] = oldHeaders[i + 1]
        BY <1>1, <1>2
    <2> QED  BY <1>1, <1>2, <2>1, <2>2 DEF GenesisStays
<1> QED  BY <1>1, <1>2, <1>4, <1>5, <1>6 DEF LightInv

\* A block is added on the one light clients were led to.
LEMMA GoKeeps ==
    ASSUME FilterInv, GoesOn
    PROVE  LightInv' /\ told' \in Headers \cup {None} /\ newHeaders' \in Seq(Headers)
<1> DEFINE h == newHeaders[Len(newHeaders)]
           f == SubSeq(newHeaders, 1, Len(newHeaders) - 1)
<1>1. /\ loop = "walk" /\ oldh = newh /\ newHeaders # <<>> /\ oldHeaders = <<>>
      /\ told' = (IF told = parent[h] THEN h ELSE None)
      /\ newHeaders' = f
      /\ UNCHANGED <<setup, loop, lastHead, oldh, newh, oldHeaders>>
    BY DEF GoesOn, Walked, CallsBack
<1>2. newHeaders \in Seq(Headers) /\ lastHead \in Headers /\ lastHead # None /\ oldh # None
    BY <1>1 DEF FilterInv, TypeOK, WalkInv
<1>3. f \in Seq(Headers) /\ h \in Headers
    <2>1. Len(newHeaders) \in Nat \ {0} /\ \A i \in 1 .. Len(newHeaders) : newHeaders[i] \in Headers
        BY <1>1, <1>2
    <2>2. 1 \in Int /\ Len(newHeaders) - 1 \in Int
          /\ \A i \in 1 .. Len(newHeaders) - 1 : newHeaders[i] \in Headers
        BY <2>1
    <2>3. f \in Seq(Headers)
        BY <2>2, SubSeqProperties
    <2> QED  BY <2>1, <2>3
<1>4. ASSUME setup.missing = {}
      PROVE  /\ told' \in Headers /\ IsWay(oldHeaders, told') /\ IsWay(f, lastHead)
             /\ Ends(oldHeaders, told') = Ends(f, lastHead)
    <2>1. /\ told \in Headers /\ IsWay(newHeaders, lastHead)
          /\ Ends(oldHeaders, told) = Ends(newHeaders, lastHead)
        BY <1>1, <1>4 DEF FilterInv, TypeOK, WalkInv
    <2>2. /\ IsWay(f, lastHead) /\ Ends(f, lastHead) = h
          /\ Ends(newHeaders, lastHead) = parent[h]
        BY <1>1, <1>2, <2>1, WayFront
    <2>3. \A g : IsWay(oldHeaders, g) /\ Ends(oldHeaders, g) = g
        BY <1>1 DEF IsWay, Ends
    <2>4. told = parent[h]
        BY <2>1, <2>2, <2>3
    <2> QED  BY <1>1, <1>3, <2>2, <2>3, <2>4
<1> HIDE DEF h, f
<1>5. WalkInv'
    BY <1>1, <1>2, <1>3, <1>4, FilterAssumption DEF WalkInv
<1>6. LightFollows'
    BY <1>1 DEF LightFollows
<1>7. GenesisStays'
    BY <1>1 DEF FilterInv, GenesisStays
<1> QED  BY <1>1, <1>3, <1>5, <1>6, <1>7 DEF LightInv

\* When the walk is over, light clients have been led to the last head.
LEMMA WalkEnds ==
    ASSUME FilterInv, WalkReturns
    PROVE  LightInv'
<1>1. /\ loop = "walk" /\ oldh = newh /\ oldHeaders = <<>> /\ newHeaders = <<>>
      /\ loop' = "select" /\ UNCHANGED <<setup, lastHead, told, oldHeaders, newHeaders>>
    BY DEF WalkReturns, Walked
<1>2. setup.missing = {} => told = lastHead
    BY <1>1 DEF FilterInv, WalkInv, Ends
<1> QED  BY <1>1, <1>2 DEF FilterInv, LightInv, WalkInv, LightFollows, GenesisStays

-----------------------------------------------------------------------------
(* The invariant *)

\* An event that the loop takes goes to those who want it.
LEMMA TakesKeeps ==
    ASSUME FilterInv, NEW s \in Sources, Takes(s), NEW to \in SUBSET Clients,
           Handles(Head(chan[s]), to), loop' \in {"select", "walk"},
           \A c \in Clients : c \in to <=> pc[c] \in Installed /\ Wanted(setup.wish[c], Head(chan[s]))
    PROVE  /\ SendInv' /\ IndexInv' /\ ChanInv'
           /\ UNCHANGED <<setup, clientVars, index, emitted, history>>
           /\ chan' \in [Sources -> Seq(Item)] /\ handled' \in Seq(Item) /\ todo' \subseteq Clients
<1>1. /\ todo = {} /\ chan[s] # <<>> /\ chan' = [chan EXCEPT ![s] = Tail(@)]
      /\ UNCHANGED <<setup, pc, typ, index, emitted, history>>
    BY DEF Takes, Idle, clientVars
<1>2. chan \in [Sources -> Seq(Item)]
    BY DEF FilterInv, TypeOK
<1>3. /\ Head(chan[s]) \in Item /\ Tail(chan[s]) \in Seq(Item)
      /\ \A i \in DOMAIN Tail(chan[s]) : i + 1 \in DOMAIN chan[s] /\ Tail(chan[s])[i] = chan[s][i + 1]
    BY <1>1, <1>2
<1>4. chan' \in [Sources -> Seq(Item)]
    BY <1>1, <1>2, <1>3
<1>5. SendInv' /\ handled' \in Seq(Item) /\ todo' \subseteq Clients
    BY <1>1, <1>3, HandlesKeeps DEF FilterInv, SendInv
<1>6. IndexInv'
    BY <1>1 DEF FilterInv, IndexInv
<1>7. ChanInv'
    <2> SUFFICES ASSUME NEW r \in Sources, NEW i \in DOMAIN chan'[r]
                 PROVE  chan'[r][i].src = r
        BY DEF ChanInv
    <2>1. CASE r = s
        BY <1>1, <1>2, <1>3, <2>1 DEF FilterInv, ChanInv
    <2>2. CASE r # s
        BY <1>1, <1>2, <2>2 DEF FilterInv, ChanInv
    <2> QED  BY <2>1, <2>2
<1> QED  BY <1>1, <1>4, <1>5, <1>6, <1>7 DEF clientVars

\* The first event of a source is of that source.
LEMMA HeadOf ==
    ASSUME FilterInv, NEW s \in Sources, chan[s] # <<>>
    PROVE  Head(chan[s]) \in Item /\ Head(chan[s]).src = s
<1>1. chan[s] \in Seq(Item)
    BY DEF FilterInv, TypeOK
<1>2. 1 \in DOMAIN chan[s] /\ Head(chan[s]) = chan[s][1] /\ chan[s][1] \in Item
    BY <1>1
<1> QED  BY <1>2 DEF FilterInv, ChanInv

\* Those the loop finds for an event are clients.
LEMMA FoundAreClients ==
    ASSUME TypeOK
    PROVE  /\ \A ev : handleLogs(ev) \in SUBSET Clients /\ handlePendingLogs(ev) \in SUBSET Clients
           /\ \A b \in Buckets : index[b] \in SUBSET Clients
<1>1. "logs" \in Buckets /\ "pendingLogs" \in Buckets /\ \A b \in Buckets : index[b] \in SUBSET Clients
    BY DEF TypeOK, Buckets, Types
<1> QED  BY <1>1 DEF handleLogs, handlePendingLogs

\* The four kinds of events.
LEMMA LogsStep ==
    ASSUME FilterInv, NEW s \in Sources, TakesLogs(s)
    PROVE  FilterInv'
<1> DEFINE ev == Head(chan[s])
<1>1. /\ s \in {"logs", "rmLogs"} /\ Takes(s) /\ Handles(ev, handleLogs(ev))
      /\ UNCHANGED <<loop, lastHead, walkVars, told>>
    BY DEF TakesLogs
<1>2. chan[s] # <<>> /\ loop = "select" /\ setup' = setup
    BY <1>1 DEF Takes, Idle
<1>3. ev \in Item /\ ev.src = s
    BY <1>2, HeadOf
<1> HIDE DEF ev
<1>4. \A c \in Clients : c \in handleLogs(ev) <=> pc[c] \in Installed /\ Wanted(setup.wish[c], ev)
    BY <1>1, <1>3, FoundAreWanting DEF FilterInv
<1>5. handleLogs(ev) \in SUBSET Clients
    BY FoundAreClients DEF FilterInv
<1>6. /\ SendInv' /\ IndexInv' /\ ChanInv'
      /\ UNCHANGED <<setup, clientVars, index, emitted, history>>
      /\ chan' \in [Sources -> Seq(Item)] /\ handled' \in Seq(Item) /\ todo' \subseteq Clients
    BY <1>1, <1>2, <1>4, <1>5, TakesKeeps DEF ev
<1>7. LightInv'
    BY <1>1, <1>2, WalkKept DEF FilterInv, LightInv
<1>8. TypeOK'
    BY <1>1, <1>6 DEF FilterInv, TypeOK, clientVars, history, walkVars
<1> QED  BY <1>6, <1>7, <1>8 DEF FilterInv, SendInv, LightInv

LEMMA PendingLogsStep ==
    ASSUME FilterInv, TakesPendingLogs
    PROVE  FilterInv'
<1> DEFINE ev == Head(chan["pendingLogs"])
<1>1. /\ Takes("pendingLogs") /\ Handles(ev, handlePendingLogs(ev))
      /\ UNCHANGED <<loop, lastHead, walkVars, told>> /\ "pendingLogs" \in Sources
    BY DEF TakesPendingLogs, Sources
<1>2. chan["pendingLogs"] # <<>> /\ loop = "select" /\ setup' = setup
    BY <1>1 DEF Takes, Idle
<1>3. ev \in Item /\ ev.src = "pendingLogs"
    BY <1>1, <1>2, HeadOf
<1> HIDE DEF ev
<1>4. \A c \in Clients : c \in handlePendingLogs(ev) <=> pc[c] \in Installed /\ Wanted(setup.wish[c], ev)
    BY <1>1, <1>3, FoundAreWanting DEF FilterInv
<1>5. handlePendingLogs(ev) \in SUBSET Clients
    BY FoundAreClients DEF FilterInv
<1>6. /\ SendInv' /\ IndexInv' /\ ChanInv'
      /\ UNCHANGED <<setup, clientVars, index, emitted, history>>
      /\ chan' \in [Sources -> Seq(Item)] /\ handled' \in Seq(Item) /\ todo' \subseteq Clients
    BY <1>1, <1>2, <1>4, <1>5, TakesKeeps DEF ev
<1>7. LightInv'
    BY <1>1, <1>2, WalkKept DEF FilterInv, LightInv
<1>8. TypeOK'
    BY <1>1, <1>6 DEF FilterInv, TypeOK, clientVars, history, walkVars
<1> QED  BY <1>6, <1>7, <1>8 DEF FilterInv, SendInv, LightInv

LEMMA TxsStep ==
    ASSUME FilterInv, handleTxsEvent
    PROVE  FilterInv'
<1> DEFINE ev == Head(chan["txs"])
<1>1. /\ Takes("txs") /\ Handles(ev, index["txs"])
      /\ UNCHANGED <<loop, lastHead, walkVars, told>> /\ "txs" \in Sources
    BY DEF handleTxsEvent, Sources
<1>2. chan["txs"] # <<>> /\ loop = "select" /\ setup' = setup
    BY <1>1 DEF Takes, Idle
<1>3. ev \in Item /\ ev.src = "txs"
    BY <1>1, <1>2, HeadOf
<1> HIDE DEF ev
<1>4. \A c \in Clients : c \in index["txs"] <=> pc[c] \in Installed /\ Wanted(setup.wish[c], ev)
    BY <1>1, <1>3, FoundAreWanting DEF FilterInv
<1>5. index["txs"] \in SUBSET Clients
    BY FoundAreClients DEF FilterInv, Buckets, Types
<1>6. /\ SendInv' /\ IndexInv' /\ ChanInv'
      /\ UNCHANGED <<setup, clientVars, index, emitted, history>>
      /\ chan' \in [Sources -> Seq(Item)] /\ handled' \in Seq(Item) /\ todo' \subseteq Clients
    BY <1>1, <1>2, <1>4, <1>5, TakesKeeps DEF ev
<1>7. LightInv'
    BY <1>1, <1>2, WalkKept DEF FilterInv, LightInv
<1>8. TypeOK'
    BY <1>1, <1>6 DEF FilterInv, TypeOK, clientVars, history, walkVars
<1> QED  BY <1>6, <1>7, <1>8 DEF FilterInv, SendInv, LightInv

LEMMA ChainStep ==
    ASSUME FilterInv, handleChainEvent
    PROVE  FilterInv'
<1> DEFINE ev == Head(chan["chain"])
<1>1. /\ Takes("chain") /\ Handles(ev, index["blocks"]) /\ "chain" \in Sources
    BY DEF handleChainEvent, Sources
<1>2. chan["chain"] # <<>>
    BY <1>1 DEF Takes
<1>3. ev \in Item /\ ev.src = "chain"
    BY <1>1, <1>2, HeadOf
<1> HIDE DEF ev
<1>4. \A c \in Clients : c \in index["blocks"] <=> pc[c] \in Installed /\ Wanted(setup.wish[c], ev)
    BY <1>1, <1>3, FoundAreWanting DEF FilterInv
<1>5. index["blocks"] \in SUBSET Clients
    BY FoundAreClients DEF FilterInv, Buckets, Types
<1>6. /\ LightInv' /\ loop' \in {"select", "walk"}
      /\ lastHead' \in Headers \cup {None} /\ told' \in Headers \cup {None}
      /\ oldh' \in Headers \cup {None} /\ newh' \in Headers \cup {None}
      /\ UNCHANGED <<oldHeaders, newHeaders>>
    BY WalkBegins
<1>7. /\ SendInv' /\ IndexInv' /\ ChanInv'
      /\ UNCHANGED <<setup, clientVars, index, emitted, history>>
      /\ chan' \in [Sources -> Seq(Item)] /\ handled' \in Seq(Item) /\ todo' \subseteq Clients
    BY <1>1, <1>4, <1>5, <1>6, TakesKeeps DEF ev
<1>8. TypeOK'
    BY <1>6, <1>7 DEF FilterInv, TypeOK, clientVars, history
<1> QED  BY <1>6, <1>7, <1>8 DEF FilterInv, SendInv, LightInv

\* callBack sends a block to the subscriptions to logs, and they are those who want it.
LEMMA CallBackKeeps ==
    ASSUME FilterInv, NEW h \in Headers, NEW removed \in BOOLEAN, Walked, CallsBack(h, removed)
    PROVE  /\ SendInv' /\ IndexInv' /\ ChanInv'
           /\ UNCHANGED <<setup, clientVars, index, sourceVars, loop, lastHead, oldh, newh, history>>
           /\ handled' \in Seq(Item) /\ todo' \subseteq Clients
<1> DEFINE item == [src |-> "light", block |-> h, removed |-> removed]
<1>1. /\ Handles(item, index["logs"]) /\ loop = "walk" /\ todo = {}
      /\ UNCHANGED <<setup, clientVars, index, sourceVars, loop, lastHead, oldh, newh, history>>
    BY DEF CallsBack, Walked
<1>2. item \in Item /\ item.src = "light"
    BY DEF Item
<1> HIDE DEF item
<1>3. \A c \in Clients : c \in index["logs"] <=> pc[c] \in Installed /\ Wanted(setup.wish[c], item)
    BY <1>2, FoundAreWanting DEF FilterInv
<1>4. index["logs"] \in SUBSET Clients
    BY FoundAreClients DEF FilterInv, Buckets, Types
<1>5. SendInv' /\ handled' \in Seq(Item) /\ todo' \subseteq Clients
    BY <1>1, <1>2, <1>3, <1>4, HandlesKeeps DEF FilterInv, SendInv, clientVars
<1>6. IndexInv' /\ ChanInv'
    BY <1>1 DEF FilterInv, IndexInv, ChanInv, clientVars, sourceVars
<1> QED  BY <1>1, <1>5, <1>6

\* The steps of the walk.
LEMMA WalkStep ==
    ASSUME FilterInv, FindsAncestor \/ RollsBack \/ GoesOn \/ WalkReturns
    PROVE  FilterInv'
<1>1. CASE FindsAncestor
    <2>1. /\ UNCHANGED <<setup, pc, typ, index, chan, emitted, loop, todo, lastHead, handled, told>>
          /\ UNCHANGED <<since, until, got>>
        BY <1>1 DEF FindsAncestor, clientVars, sourceVars, history
    <2>2. SendInv' /\ IndexInv' /\ ChanInv'
        BY <2>1, ClientKeeps DEF FilterInv, SendInv, IndexInv, ChanInv, history
    <2>3. LightInv' /\ TypeOK'
        BY <1>1, <2>1, AncestorKeeps DEF FilterInv, TypeOK
    <2> QED  BY <2>2, <2>3 DEF FilterInv, SendInv, LightInv
<1>2. CASE RollsBack
    <2>1. /\ Walked /\ CallsBack(Head(oldHeaders), TRUE) /\ UNCHANGED newHeaders
          /\ oldHeaders \in Seq(Headers) /\ oldHeaders # <<>>
        BY <1>2 DEF RollsBack, FilterInv, TypeOK
    <2>2. /\ SendInv' /\ IndexInv' /\ ChanInv'
          /\ UNCHANGED <<setup, clientVars, index, sourceVars, loop, lastHead, oldh, newh, history>>
          /\ handled' \in Seq(Item) /\ todo' \subseteq Clients
        <3>1. Head(oldHeaders) \in Headers
            BY <2>1
        <3> QED  BY <2>1, <3>1, CallBackKeeps
    <2>3. LightInv' /\ told' \in Headers \cup {None} /\ oldHeaders' \in Seq(Headers)
        BY <1>2, RollKeeps
    <2>4. TypeOK'
        BY <2>1, <2>2, <2>3 DEF FilterInv, TypeOK, clientVars, sourceVars, history
    <2> QED  BY <2>2, <2>3, <2>4 DEF FilterInv, SendInv, LightInv
<1>3. CASE GoesOn
    <2>1. /\ Walked /\ CallsBack(newHeaders[Len(newHeaders)], FALSE) /\ UNCHANGED oldHeaders
          /\ newHeaders \in Seq(Headers) /\ newHeaders # <<>>
        BY <1>3 DEF GoesOn, FilterInv, TypeOK
    <2>2. /\ SendInv' /\ IndexInv' /\ ChanInv'
          /\ UNCHANGED <<setup, clientVars, index, sourceVars, loop, lastHead, oldh, newh, history>>
          /\ handled' \in Seq(Item) /\ todo' \subseteq Clients
        <3>1. newHeaders[Len(newHeaders)] \in Headers
            BY <2>1
        <3> QED  BY <2>1, <3>1, CallBackKeeps
    <2>3. LightInv' /\ told' \in Headers \cup {None} /\ newHeaders' \in Seq(Headers)
        BY <1>3, GoKeeps
    <2>4. TypeOK'
        BY <2>1, <2>2, <2>3 DEF FilterInv, TypeOK, clientVars, sourceVars, history
    <2> QED  BY <2>2, <2>3, <2>4 DEF FilterInv, SendInv, LightInv
<1>4. CASE WalkReturns
    <2>1. /\ UNCHANGED <<setup, pc, typ, index, chan, emitted, todo, lastHead, oldHeaders>>
          /\ UNCHANGED <<newHeaders, handled, told, since, until, got>>
          /\ loop' = "select" /\ oldh' = None /\ newh' = None
        BY <1>4 DEF WalkReturns, clientVars, sourceVars, history
    <2>2. SentInOrder' /\ PlaceInv'
        <3>1. \A c \in Clients : SentOrOwed(c)' = SentOrOwed(c) /\ WantedOf(c)' = WantedOf(c)
            BY <2>1 DEF SentOrOwed, WantedOf
        <3> QED  BY <2>1, <3>1 DEF FilterInv, SentInOrder, PlaceInv
    <2>3. NoneAfterReturn' /\ IndexInv' /\ ChanInv' /\ TypeOK'
        BY <2>1 DEF FilterInv, NoneAfterReturn, IndexInv, ChanInv, TypeOK
    <2>4. LightInv'
        BY <1>4, WalkEnds
    <2> QED  BY <2>2, <2>3, <2>4 DEF FilterInv, LightInv
<1> QED  BY <1>1, <1>2, <1>3, <1>4

\* A source sends an event.
LEMMA EmitsStep ==
    ASSUME FilterInv, NEW s \in Sources, Emits(s)
    PROVE  FilterInv'
<1>1. /\ UNCHANGED <<setup, clientVars, index, loopVars, history>>
      /\ emitted' = [emitted EXCEPT ![s] = @ + 1] /\ emitted \in [Sources -> Nat]
      /\ chan \in [Sources -> Seq(Item)] /\ setup \in Setups
    BY DEF Emits, FilterInv, TypeOK
<1>2. PICK h \in setup.blocks :
         chan' = [chan EXCEPT ![s] = Append(@, [src |-> s, block |-> h, removed |-> s = "rmLogs"])]
    BY DEF Emits
<1> DEFINE item == [src |-> s, block |-> h, removed |-> s = "rmLogs"]
<1>3. item \in Item /\ item.src = s
    <2>1. h \in Headers
        BY <1>1, FilterAssumption
    <2> QED  BY <2>1 DEF Item
<1> HIDE DEF item
<1>4. chan' = [chan EXCEPT ![s] = Append(chan[s], item)]
    BY <1>2 DEF item
<1>5. chan' \in [Sources -> Seq(Item)]
    BY <1>1, <1>3, <1>4
<1>6. ChanInv'
    <2> SUFFICES ASSUME NEW r \in Sources, NEW i \in DOMAIN chan'[r]
                 PROVE  chan'[r][i].src = r
        BY DEF ChanInv
    <2>1. CASE r = s
        <3>1. chan'[r] = Append(chan[s], item) /\ chan[s] \in Seq(Item)
            BY <1>1, <1>4, <2>1
        <3>2. chan'[r][i] = item \/ (i \in DOMAIN chan[s] /\ chan'[r][i] = chan[s][i])
            BY <1>3, <3>1
        <3> QED  BY <1>3, <2>1, <3>2 DEF FilterInv, ChanInv
    <2>2. CASE r # s
        BY <1>1, <1>4, <2>2 DEF FilterInv, ChanInv
    <2> QED  BY <2>1, <2>2
<1>7. emitted' \in [Sources -> Nat]
    BY <1>1
<1>8. SendInv' /\ IndexInv' /\ LightInv'
    BY <1>1, ClientKeeps, WalkKept
    DEF FilterInv, SendInv, IndexInv, LightInv, clientVars, loopVars
<1>9. TypeOK'
    BY <1>1, <1>5, <1>7 DEF FilterInv, TypeOK, clientVars, loopVars, walkVars, history
<1> QED  BY <1>6, <1>8, <1>9 DEF FilterInv, SendInv, LightInv

\* The steps of a client.
LEMMA ClientStep ==
    ASSUME FilterInv, NEW c \in Clients,
           Subscribes(c) \/ Subscribed(c) \/ Unsubscribe(c) \/ Unsubscribed(c)
    PROVE  FilterInv'
<1> DEFINE Places == {"new", "refused", "installing", "installed", "reading",
                      "unsubscribing", "uninstalled", "done"}
<1>1. UNCHANGED <<setup, index, sourceVars, loopVars, history>>
    BY DEF Subscribes, Subscribed, Unsubscribe, Unsubscribed
<1>2. pc \in [Clients -> Places] /\ typ \in [Clients -> Types \cup {None}]
    BY DEF FilterInv, TypeOK
<1>3. PICK p \in Places, t \in Types \cup {None} :
         /\ pc' = [pc EXCEPT ![c] = p] /\ typ' = [typ EXCEPT ![c] = t]
         /\ p \in Installed <=> pc[c] \in Installed
         /\ p \in {"uninstalled", "done"} <=> pc[c] \in {"uninstalled", "done"}
         /\ p \in {"new", "refused", "installing"} => pc[c] \in {"new", "refused", "installing"}
         /\ setup.wish[c] # None /\ t = TypeOf(setup.wish[c])
         /\ p # "refused" => t \in Types
         /\ p \in Installed => t = typ[c]
    <2>1. CASE Subscribes(c)
        <3>1. /\ pc[c] = "new" /\ setup.wish[c] # None
              /\ typ' = [typ EXCEPT ![c] = TypeOf(setup.wish[c])]
              /\ pc' = [pc EXCEPT ![c] = IF TypeOf(setup.wish[c]) = None THEN "refused" ELSE "installing"]
            BY <2>1 DEF Subscribes
        <3>2. TypeOf(setup.wish[c]) \in Types \cup {None}
            <4>1. setup.wish[c] \in Wishes
                BY <3>1, FilterAssumption DEF FilterInv, TypeOK
            <4> QED  BY <4>1, WishParts, LogTypes DEF TypeOf, Types
        <3> QED  BY <3>1, <3>2 DEF Installed
    <2>2. CASE Subscribed(c) \/ Unsubscribe(c) \/ Unsubscribed(c)
        <3>1. PICK p \in Places \ {"new", "refused", "installing"} :
                 /\ pc' = [pc EXCEPT ![c] = p] /\ typ' = typ
                 /\ p \in Installed <=> pc[c] \in Installed
                 /\ p \in {"uninstalled", "done"} <=> pc[c] \in {"uninstalled", "done"}
                 /\ pc[c] # "new" /\ pc[c] # "refused"
            BY <2>2 DEF Subscribed, Unsubscribe, Unsubscribed, Installed
        <3>2. typ' = [typ EXCEPT ![c] = typ[c]]
            BY <1>2, <3>1
        <3>3. setup.wish[c] # None /\ typ[c] = TypeOf(setup.wish[c]) /\ typ[c] \in Types
            BY <3>1 DEF FilterInv, IndexInv
        <3> QED  BY <3>1, <3>2, <3>3
    <2> QED  BY <2>1, <2>2
<1>4. /\ pc'[c] = p /\ typ'[c] = t
      /\ \A d \in Clients : d # c => pc'[d] = pc[d] /\ typ'[d] = typ[d]
      /\ pc' \in [Clients -> Places] /\ typ' \in [Clients -> Types \cup {None}]
    BY <1>2, <1>3
<1>5. SendInv'
    <2>1. \A d \in Clients :
              /\ pc'[d] \in Installed <=> pc[d] \in Installed
              /\ pc'[d] \in {"uninstalled", "done"} <=> pc[d] \in {"uninstalled", "done"}
              /\ pc'[d] \in {"new", "refused", "installing"} => pc[d] \in {"new", "refused", "installing"}
        BY <1>3, <1>4
    <2> QED  BY <1>1, <2>1, ClientKeeps DEF FilterInv, SendInv, loopVars
<1>6. IndexInv'
    <2>1. \A d \in Clients : pc'[d] # "new" =>
              /\ setup.wish[d] # None /\ typ'[d] = TypeOf(setup.wish[d])
              /\ pc'[d] # "refused" => typ'[d] \in Types
        BY <1>3, <1>4 DEF FilterInv, IndexInv
    <2>2. \A b \in Buckets, d \in Clients :
              d \in index[b] <=> pc'[d] \in Installed /\ b \in BucketsOf(typ'[d])
        BY <1>3, <1>4 DEF FilterInv, IndexInv
    <2> QED  BY <1>1, <2>1, <2>2 DEF IndexInv
<1>7. ChanInv' /\ LightInv'
    BY <1>1, WalkKept DEF FilterInv, ChanInv, LightInv, sourceVars, loopVars
<1>8. TypeOK'
    BY <1>1, <1>4 DEF FilterInv, TypeOK, sourceVars, loopVars, walkVars, history
<1> QED  BY <1>5, <1>6, <1>7, <1>8 DEF FilterInv, SendInv, LightInv

\* The loop installs or uninstalls a subscription, in all its buckets at once.
LEMMA InstallStep ==
    ASSUME FilterInv, NEW c \in Clients, Installs(c) \/ Uninstalls(c)
    PROVE  FilterInv'
<1>1. /\ UNCHANGED <<setup, typ, sourceVars, loopVars, got>>
      /\ pc \in [Clients -> {"new", "refused", "installing", "installed", "reading",
                             "unsubscribing", "uninstalled", "done"}]
      /\ index \in [Buckets -> SUBSET Clients] /\ Len(handled) \in Nat
      /\ since \in [Clients -> Nat] /\ until \in [Clients -> Nat]
    BY DEF Installs, Uninstalls, FilterInv, TypeOK
<1>2. typ[c] \in Types /\ setup.wish[c] # None /\ typ[c] = TypeOf(setup.wish[c])
    BY DEF Installs, Uninstalls, FilterInv, IndexInv
<1>3. IndexInv'
    <2>1. CASE Installs(c)
        <3>1. /\ pc' = [pc EXCEPT ![c] = "installed"] /\ pc[c] = "installing"
              /\ index' = [b \in Buckets |-> IF b \in BucketsOf(typ[c]) THEN index[b] \cup {c} ELSE index[b]]
            BY <2>1 DEF Installs
        <3>2. pc'[c] = "installed" /\ \A d \in Clients : d # c => pc'[d] = pc[d]
            BY <1>1, <3>1
        <3>3. \A b \in Buckets, d \in Clients :
                  d \in index'[b] <=> pc'[d] \in Installed /\ b \in BucketsOf(typ[d])
            BY <1>1, <3>1, <3>2 DEF FilterInv, IndexInv, Installed
        <3>4. \A d \in Clients : pc'[d] # "new" =>
                  /\ setup.wish[d] # None /\ typ[d] = TypeOf(setup.wish[d])
                  /\ pc'[d] # "refused" => typ[d] \in Types
            BY <1>2, <3>2 DEF FilterInv, IndexInv
        <3> QED  BY <1>1, <3>3, <3>4 DEF IndexInv
    <2>2. CASE Uninstalls(c)
        <3>1. /\ pc' = [pc EXCEPT ![c] = "uninstalled"] /\ pc[c] = "unsubscribing"
              /\ index' = [b \in Buckets |-> IF b \in BucketsOf(typ[c]) THEN index[b] \ {c} ELSE index[b]]
            BY <2>2 DEF Uninstalls
        <3>2. pc'[c] = "uninstalled" /\ \A d \in Clients : d # c => pc'[d] = pc[d]
            BY <1>1, <3>1
        <3>3. \A b \in Buckets, d \in Clients :
                  d \in index'[b] <=> pc'[d] \in Installed /\ b \in BucketsOf(typ[d])
            BY <1>1, <3>1, <3>2 DEF FilterInv, IndexInv, Installed
        <3>4. \A d \in Clients : pc'[d] # "new" =>
                  /\ setup.wish[d] # None /\ typ[d] = TypeOf(setup.wish[d])
                  /\ pc'[d] # "refused" => typ[d] \in Types
            BY <1>2, <3>2 DEF FilterInv, IndexInv
        <3> QED  BY <1>1, <3>3, <3>4 DEF IndexInv
    <2> QED  BY <2>1, <2>2
<1>4. SendInv'
    BY InstallsKeeps, UninstallsKeeps DEF FilterInv, SendInv
<1>5. ChanInv' /\ LightInv'
    BY <1>1, WalkKept DEF FilterInv, ChanInv, LightInv, sourceVars, loopVars
<1>6. TypeOK'
    <2>1. pc' \in [Clients -> {"new", "refused", "installing", "installed", "reading",
                               "unsubscribing", "uninstalled", "done"}]
        BY <1>1 DEF Installs, Uninstalls
    <2>2. index' \in [Buckets -> SUBSET Clients]
        BY <1>1 DEF Installs, Uninstalls
    <2>3. since' \in [Clients -> Nat] /\ until' \in [Clients -> Nat]
        BY <1>1 DEF Installs, Uninstalls
    <2> QED  BY <1>1, <2>1, <2>2, <2>3
             DEF FilterInv, TypeOK, sourceVars, loopVars, walkVars
<1> QED  BY <1>3, <1>4, <1>5, <1>6 DEF FilterInv, SendInv, LightInv

\* The loop sends, or it returns.
LEMMA LoopStep ==
    ASSUME FilterInv, Stops \/ \E c \in Clients : Sends(c)
    PROVE  FilterInv'
<1>1. CASE Stops
    <2>1. /\ UNCHANGED <<setup, pc, typ, index, chan, emitted, todo, lastHead, oldh, newh>>
          /\ UNCHANGED <<oldHeaders, newHeaders, handled, told, since, until, got>>
          /\ loop = "select" /\ todo = {} /\ loop' = "ended"
        BY <1>1 DEF Stops, Idle, clientVars, sourceVars, walkVars, history
    <2>2. SentInOrder' /\ PlaceInv'
        <3>1. \A c \in Clients : SentOrOwed(c)' = SentOrOwed(c) /\ WantedOf(c)' = WantedOf(c)
            BY <2>1 DEF SentOrOwed, WantedOf
        <3> QED  BY <2>1, <3>1 DEF FilterInv, SentInOrder, PlaceInv
    <2>3. NoneAfterReturn' /\ IndexInv' /\ ChanInv' /\ TypeOK'
        BY <2>1 DEF FilterInv, NoneAfterReturn, IndexInv, ChanInv, TypeOK
    <2>4. WalkInv' /\ LightFollows' /\ GenesisStays'
        BY <2>1 DEF FilterInv, WalkInv, LightFollows, GenesisStays
    <2> QED  BY <2>2, <2>3, <2>4 DEF FilterInv
<1>2. CASE \E c \in Clients : Sends(c)
    <2> PICK c \in Clients : Sends(c)
        BY <1>2
    <2>1. /\ UNCHANGED <<setup, pc, typ, index, chan, emitted, loop, lastHead, oldh, newh>>
          /\ UNCHANGED <<oldHeaders, newHeaders, handled, told, since, until>>
        BY DEF Sends, clientVars, sourceVars, walkVars
    <2>2. SendInv' /\ todo' \subseteq Clients /\ got' \in [Clients -> Seq(Nat)]
        BY SendsKeeps DEF FilterInv, SendInv
    <2>3. IndexInv' /\ ChanInv' /\ TypeOK'
        BY <2>1, <2>2 DEF FilterInv, IndexInv, ChanInv, TypeOK
    <2>4. LightInv'
        BY <2>1, WalkKept DEF FilterInv, LightInv, walkVars
    <2> QED  BY <2>2, <2>3, <2>4 DEF FilterInv, SendInv, LightInv
<1> QED  BY <1>1, <1>2

\* Nothing is installed, sent or walked at the beginning.
LEMMA FilterInit == Init => FilterInv
<1> SUFFICES ASSUME Init PROVE FilterInv
    OBVIOUS
<1>1. TypeOK
    BY DEF Init, TypeOK
<1>2. IndexInv /\ ChanInv /\ NoneAfterReturn /\ PlaceInv
    BY DEF Init, IndexInv, ChanInv, NoneAfterReturn, PlaceInv, Installed
<1>3. SentInOrder
    BY DEF Init, SentInOrder, Installed
<1>4. WalkInv /\ LightFollows /\ GenesisStays
    BY DEF Init, WalkInv, LightFollows, GenesisStays
<1> QED  BY <1>1, <1>2, <1>3, <1>4 DEF FilterInv

\* Every step keeps the invariant.
LEMMA FilterStep == FilterInv /\ [Next]_vars => FilterInv'
<1> SUFFICES ASSUME FilterInv, [Next]_vars PROVE FilterInv'
    OBVIOUS
<1>1. CASE eventLoop
    BY <1>1, LogsStep, PendingLogsStep, TxsStep, ChainStep, WalkStep, LoopStep, InstallStep
    DEF eventLoop
<1>2. CASE Stops
    BY <1>2, LoopStep
<1>3. CASE \E s \in Sources : Emits(s)
    BY <1>3, EmitsStep
<1>4. CASE \E c \in Clients : Subscribes(c) \/ Subscribed(c) \/ Unsubscribe(c) \/ Unsubscribed(c)
    BY <1>4, ClientStep
<1>5. CASE UNCHANGED vars
    <2>1. /\ UNCHANGED <<setup, pc, typ, index, chan, emitted, loop, todo, lastHead, oldh, newh>>
          /\ UNCHANGED <<oldHeaders, newHeaders, handled, told, since, until, got>>
        BY <1>5 DEF vars, clientVars, sourceVars, loopVars, walkVars, history
    <2>2. TypeOK' /\ IndexInv' /\ ChanInv'
        BY <2>1 DEF FilterInv, TypeOK, IndexInv, ChanInv
    <2>3. SendInv'
        BY <2>1, ClientKeeps DEF FilterInv, SendInv, history
    <2>4. LightInv'
        BY <2>1, WalkKept DEF FilterInv, LightInv, walkVars
    <2> QED  BY <2>2, <2>3, <2>4 DEF FilterInv, SendInv, LightInv
<1> QED  BY <1>1, <1>2, <1>3, <1>4, <1>5 DEF Next

\* A subscription is sent what its wish asks for of all that the loop handles between its
\* installation and its removal, once and in order; none is sent to after Unsubscribe has
\* returned, and light clients are led block by block to the last head (eventLoop and
\* lightFilterNewHead).
THEOREM FilterInvariant == Spec => []FilterInv
<1>1. Init => FilterInv
    BY FilterInit
<1>2. FilterInv /\ [Next]_vars => FilterInv'
    BY FilterStep
<1> QED  BY <1>1, <1>2, PTL DEF Spec

\* Every step of the walk leaves less of it, whatever headers the database lacks: the
\* event that began it is dealt with after finitely many of them (lightFilterNewHead).
THEOREM TheWalkShortens == Spec => WalkShortens
<1> DEFINE A == FindsAncestor \/ RollsBack \/ GoesOn => WalkLeft' \in Nat /\ WalkLeft' < WalkLeft
<1>1. FilterInv /\ [Next]_vars => [A]_vars
    <2> SUFFICES ASSUME FilterInv PROVE A
        OBVIOUS
    <2>1. oldHeaders \in Seq(Headers) /\ newHeaders \in Seq(Headers)
        BY DEF FilterInv, TypeOK
    <2>2. CASE FindsAncestor
        <3> DEFINE back == number[oldh] >= number[newh]
                   on == number[oldh'] < number[newh]
        <3>1. /\ number[oldh] \in Nat /\ number[newh] \in Nat
              /\ number[oldh'] \in Nat /\ number[newh'] \in Nat
              /\ Len(oldHeaders) \in Nat /\ Len(newHeaders) \in Nat
            BY <2>1, <2>2, AncestorDescends
        <3>2. /\ back => Len(oldHeaders') = Len(oldHeaders) + 1
              /\ ~back => Len(oldHeaders') = Len(oldHeaders)
              /\ on => Len(newHeaders') = Len(newHeaders) + 1
              /\ ~on => Len(newHeaders') = Len(newHeaders)
            <4>1. /\ oldHeaders' = (IF back THEN Append(oldHeaders, oldh) ELSE oldHeaders)
                  /\ oldh' = (IF back THEN parent[oldh] ELSE oldh)
                  /\ newHeaders' = (IF on THEN Append(newHeaders, newh) ELSE newHeaders)
                BY <2>2 DEF FindsAncestor
            <4> HIDE DEF back, on
            <4> QED  BY <2>1, <4>1
        <3>3. /\ back => number[oldh'] = number[oldh] - 1
              /\ ~back => number[oldh'] = number[oldh]
              /\ on => number[newh'] <= number[newh] - 1
              /\ ~on => number[newh'] = number[newh]
            BY <2>2, AncestorDescends
        <3>4. back \/ on
            BY <3>1, <3>3
        <3> HIDE DEF back, on
        <3> DEFINE a == number[oldh]
                   b == number[newh]
                   k == Len(oldHeaders)
                   l == Len(newHeaders)
                   a1 == number[oldh']
                   b1 == number[newh']
                   k1 == Len(oldHeaders')
                   l1 == Len(newHeaders')
        <3>5. a \in Nat /\ b \in Nat /\ a1 \in Nat /\ b1 \in Nat /\ k \in Nat /\ l \in Nat
            BY <3>1
        <3>6. /\ \/ a1 = a - 1 /\ k1 = k + 1
                 \/ a1 = a /\ k1 = k
              /\ \/ b1 <= b - 1 /\ l1 = l + 1
                 \/ b1 = b /\ l1 = l
              /\ a1 = a - 1 \/ b1 <= b - 1
            BY <3>2, <3>3, <3>4
        <3>7. WalkLeft = 2 * (a + b) + k + l /\ WalkLeft' = 2 * (a1 + b1) + k1 + l1
            BY DEF WalkLeft
        <3> HIDE DEF a, b, k, l, a1, b1, k1, l1
        <3>8. /\ 2 * (a1 + b1) + k1 + l1 \in Nat
              /\ 2 * (a1 + b1) + k1 + l1 < 2 * (a + b) + k + l
            BY <3>5, <3>6
        <3> QED  BY <3>7, <3>8
    <2>3. CASE RollsBack
        <3>1. /\ oldHeaders # <<>> /\ Len(oldHeaders') = Len(oldHeaders) - 1
              /\ Len(oldHeaders) \in Nat \ {0} /\ Len(newHeaders) \in Nat
              /\ UNCHANGED <<oldh, newh, newHeaders>>
            BY <2>1, <2>3 DEF RollsBack, CallsBack
        <3>2. number[oldh] \in Nat /\ number[newh] \in Nat
            BY <2>3, AboveGenesis DEF RollsBack, Walked, FilterInv, TypeOK, WalkInv
        <3> QED  BY <3>1, <3>2 DEF WalkLeft
    <2>4. CASE GoesOn
        <3>1. /\ Len(newHeaders) \in Nat \ {0} /\ Len(oldHeaders) \in Nat
              /\ newHeaders' = SubSeq(newHeaders, 1, Len(newHeaders) - 1)
              /\ UNCHANGED <<oldh, newh, oldHeaders>>
            BY <2>1, <2>4 DEF GoesOn, CallsBack
        <3>2. Len(newHeaders') = Len(newHeaders) - 1
            <4> DEFINE n == Len(newHeaders) - 1
            <4>1. n \in Nat /\ 1 \in Int
                BY <3>1
            <4>2. \A i \in 1 .. n : newHeaders[i] \in Headers
                BY <2>1, <3>1
            <4> HIDE DEF n
            <4>3. n \in Int
                BY <4>1
            <4>4. Len(SubSeq(newHeaders, 1, n)) = IF 1 <= n THEN n - 1 + 1 ELSE 0
                BY <4>1, <4>2, <4>3, SubSeqProperties
            <4>5. Len(SubSeq(newHeaders, 1, n)) = n
                BY <4>1, <4>4
            <4> QED  BY <3>1, <4>5 DEF n
        <3>3. number[oldh] \in Nat /\ number[newh] \in Nat
            BY <2>4, AboveGenesis DEF GoesOn, Walked, FilterInv, TypeOK, WalkInv
        <3> QED  BY <3>1, <3>2, <3>3 DEF WalkLeft
    <2> QED  BY <2>2, <2>3, <2>4
<1> QED  BY <1>1, FilterInvariant, PTL DEF Spec, WalkShortens
=============================================================================
