--------------------------- MODULE Context_proofs ---------------------------
(***************************************************************************)
(* Proofs about Context, for every set of threads, number of segments of a *)
(* reserver and number of blocks.                                          *)
(*                                                                         *)
(* The invariant says of each thread what it has of a context wherever its *)
(* stack is, and of the global context who may be building it and who may  *)
(* rely on it.                                                             *)
(***************************************************************************)
EXTENDS Context, TLAPS, SequenceTheorems

-----------------------------------------------------------------------------
(* The stack of a thread, as labels put one on the other.                  *)
On(label, rest) == <<label>> \o rest

Serving == {"pool", "any", "free"}
Building == {"once", "heap", "segment"}
Making == {"ptr", "name", "new", "local"}
Ending == {"~", "clear", "give"}
Closing == {"exit", "heapDestruct"}
Label == Serving \cup Building \cup Making \cup Ending \cup Closing

(* A call that waits for its context, and one in whose context the runtime *)
(* allocates while the destructor is being registered.                     *)
Outer == {On(label, <<>>) : label \in Serving}
Inner == {On("pool", On("new", call)) : call \in Outer}
Waiting == Outer \cup Inner

Top(t, labels) == stack[t] # <<>> /\ Head(stack[t]) \in labels
Rest(t) == Tail(stack[t])

Types ==
  /\ gbGlobalCntx \in {"never", "running", "done"} /\ gpGlobalCntx \in BOOLEAN
  /\ mHeap \in BOOLEAN /\ mReserver \in Nat
  /\ gpLocalCntx \in [Thread -> BOOLEAN] /\ gvLocalCntx \in [Thread -> Nat]
  /\ dtor \in [Thread -> {"unknown", "registered", "run"}]
  /\ mapRealm \in [Thread -> Nat] /\ mapPool \in [Thread -> BOOLEAN]
  /\ cached \in [Thread -> Nat] /\ any \in [Thread -> Nat]
  /\ life \in [Thread -> {"unborn", "running", "late", "ended", "exit"}]
  /\ stack \in [Thread -> Seq(Label)]
  /\ settled \subseteq Thread /\ doubled \subseteq Thread /\ taken \in [Thread -> Int]

(* The thread has no context, or is building its first.                    *)
Bare(t) == ~gpLocalCntx[t] /\ gvLocalCntx[t] = 0 /\ ~mapPool[t] /\ cached[t] = 0
None(t) == Bare(t) /\ mapRealm[t] = 0

(* It has one that serves it, constructed once or twice.                   *)
Whole(t) == gpLocalCntx[t] /\ gvLocalCntx[t] \in {1, 2} /\ mapRealm[t] = cnRealm

(* It was constructed once, and will be a second time, or is being.        *)
Single(t) == gpLocalCntx[t] /\ gvLocalCntx[t] = 1
First(t) == Single(t) /\ t \notin doubled /\ cached[t] = 0
Second(t) == Single(t) /\ t \in doubled /\ mapPool[t]

(* Within a registration there has been no second construction.            *)
Named(t, rest) == rest \in Inner => t \notin doubled /\ dtor[t] # "unknown"

Idle(t) == stack[t] = <<>> => None(t) \/ Whole(t)

Constructing(t) ==
  /\ Top(t, Making) => Rest(t) \in Waiting
  /\ Top(t, {"ptr"}) => (None(t) /\ Named(t, Rest(t))) \/ (Whole(t) /\ Rest(t) \in Outer)
  /\ Top(t, {"name"}) => None(t) /\ Named(t, Rest(t))
  /\ Top(t, {"new"}) =>
       \/ None(t) /\ Named(t, Rest(t))
       \/ Whole(t) /\ First(t) /\ mapPool[t] /\ Rest(t) \in Outer
  /\ Top(t, {"local"}) =>
       \/ Bare(t) /\ Named(t, Rest(t))
       \/ Second(t) /\ Rest(t) \in Outer
  /\ Top(t, Building) =>
       Bare(t) /\ \E call \in Waiting : Rest(t) = On("local", call) /\ Named(t, call)
  /\ Top(t, Building \cup {"local"}) => mapRealm[t] <= cnRealm

Served(t) ==
  Top(t, Serving) => /\ stack[t] \in Waiting /\ Whole(t)
                     /\ stack[t] \in Inner => First(t)

Destructing(t) ==
  /\ Top(t, {"~"}) => None(t) \/ Whole(t)
  /\ Top(t, {"clear"}) => gpLocalCntx[t] /\ gvLocalCntx[t] = 0 /\ mapRealm[t] = cnRealm
  /\ Top(t, {"give"}) => gpLocalCntx[t] /\ gvLocalCntx[t] = 0 /\ ~mapPool[t]
  /\ Top(t, Closing) => None(t)
  /\ Top(t, Ending) => \/ Rest(t) = <<>> /\ life[t] = "late"
                       \/ Rest(t) = On("exit", <<>>) /\ life[t] = "exit"
  /\ Top(t, Closing) => Rest(t) = <<>> /\ life[t] = "exit"

Known(t) ==
  /\ dtor[t] = "unknown" => None(t) /\ t \notin doubled /\ (stack[t] = <<>> \/ Top(t, {"ptr", "name"}))
  /\ t \in settled => /\ stack[t] = <<>> => None(t)
                      /\ stack[t] = <<>> \/ Top(t, Ending \cup Closing)

Living(t) ==
  /\ life[t] \in {"unborn", "ended"} => stack[t] = <<>>
  /\ life[t] \in {"unborn", "running"} => dtor[t] # "run"
  /\ life[t] \in {"late", "exit"} => dtor[t] # "unknown"
  /\ Top(t, Serving \cup Building \cup Making) => life[t] \in {"running", "late"}
  /\ life[t] = "exit" => t = Main
  /\ t # Main /\ life[t] \in {"running", "late"} => life[Main] = "running"

ThreadInv(t) == Idle(t) /\ Constructing(t) /\ Served(t) /\ Destructing(t) /\ Known(t)

(* The global context is there; until then only Main runs.                 *)
Built == gpGlobalCntx /\ mHeap /\ mReserver = cnRealm

GlobalInv ==
  /\ life[Main] \notin {"unborn", "ended"}
  /\ gbGlobalCntx = "never" => ~gpGlobalCntx /\ mReserver = 0 /\ ~Top(Main, {"heap", "segment"})
  /\ gbGlobalCntx = "running" =>
       \/ Top(Main, {"heap"}) /\ ~gpGlobalCntx /\ mReserver = 0
       \/ Top(Main, {"segment"}) /\ gpGlobalCntx /\ mHeap /\ mReserver \in 0 .. cnRealm
  /\ gbGlobalCntx = "done" => Built \/ (life[Main] = "exit" /\ (stack[Main] = <<>> \/ Top(Main, {"heapDestruct"})))
  /\ gbGlobalCntx = "done" => ~Top(Main, {"heap", "segment"})
  /\ gbGlobalCntx # "done" =>
       /\ \A t \in Thread : t # Main => life[t] = "unborn"
       /\ \A t \in Thread : ~gpLocalCntx[t] /\ any[t] = 0 /\ mapRealm[t] = 0
  /\ \A t \in Thread : t # Main => ~Top(t, {"heap", "segment"})

ContextInv ==
  /\ Types /\ GlobalInv /\ Ready
  /\ \A t \in Thread : ThreadInv(t) /\ Living(t)

-----------------------------------------------------------------------------
(* Stacks.                                                                 *)
LEMMA OnTop ==
  ASSUME NEW label \in Label, NEW rest \in Seq(Label)
  PROVE  /\ On(label, rest) \in Seq(Label) /\ On(label, rest) # <<>>
         /\ Head(On(label, rest)) = label /\ Tail(On(label, rest)) = rest
  <1> DEFINE s == On(label, rest)
  <1>1. <<label>> \in Seq(Label) /\ Len(<<label>>) = 1 /\ <<label>>[1] = label /\ Len(rest) \in Nat
    OBVIOUS
  <1>2. /\ s \in Seq(Label) /\ Len(s) = 1 + Len(rest)
        /\ \A k \in 1 .. 1 + Len(rest) : s[k] = IF k <= 1 THEN <<label>>[k] ELSE rest[k - 1]
    BY <1>1, ConcatProperties DEF On
  <1> HIDE DEF s
  <1>3. s # <<>> /\ Head(s) = label
    BY <1>1, <1>2
  <1>4. Tail(s) \in Seq(Label) /\ Len(Tail(s)) = Len(rest)
    BY <1>1, <1>2
  <1>5. ASSUME NEW k \in 1 .. Len(rest) PROVE Tail(s)[k] = rest[k]
    <2>1. Tail(s)[k] = s[k + 1]
      BY <1>1, <1>2
    <2>2. k + 1 \in 1 .. 1 + Len(rest) /\ ~(k + 1 <= 1) /\ k + 1 - 1 = k
      BY <1>1
    <2> QED BY <2>1, <2>2, <1>2
  <1>6. Tail(s) = rest
    BY <1>4, <1>5, SeqEqual
  <1> QED BY <1>2, <1>3, <1>6 DEF s

(* Tuples that are joined.                                                 *)
LEMMA Joined ==
  ASSUME NEW a \in Label, NEW b \in Label, NEW c \in Label
  PROVE  <<a>> \o <<b>> = <<a, b>> /\ <<a, b>> \o <<c>> = <<a, b, c>>
  <1>1. <<a>> \o <<b>> = <<a, b>>
    <2> DEFINE s == <<a>> \o <<b>>
    <2> DEFINE q == <<a, b>>
    <2>1. s \in Seq(Label) /\ Len(s) = 2 /\ s[1] = a /\ s[2] = b
      BY ConcatProperties
    <2>2. q \in Seq(Label) /\ Len(q) = 2 /\ q[1] = a /\ q[2] = b
      OBVIOUS
    <2> HIDE DEF s, q
    <2>3. \A k \in 1 .. 2 : k = 1 \/ k = 2
      OBVIOUS
    <2>4. \A k \in 1 .. Len(s) : s[k] = q[k]
      BY <2>1, <2>2, <2>3
    <2>5. s = q
      BY <2>1, <2>2, <2>4, SeqEqual
    <2> QED BY <2>5 DEF s, q
  <1>2. <<a, b>> \o <<c>> = <<a, b, c>>
    <2> DEFINE s == <<a, b>> \o <<c>>
    <2> DEFINE q == <<a, b, c>>
    <2>1. s \in Seq(Label) /\ Len(s) = 3 /\ s[1] = a /\ s[2] = b /\ s[3] = c
      BY ConcatProperties
    <2>2. q \in Seq(Label) /\ Len(q) = 3 /\ q[1] = a /\ q[2] = b /\ q[3] = c
      OBVIOUS
    <2> HIDE DEF s, q
    <2>3. \A k \in 1 .. 3 : k = 1 \/ k = 2 \/ k = 3
      OBVIOUS
    <2>4. \A k \in 1 .. Len(s) : s[k] = q[k]
      BY <2>1, <2>2, <2>3
    <2>5. s = q
      BY <2>1, <2>2, <2>4, SeqEqual
    <2> QED BY <2>5 DEF s, q
  <1> QED BY <1>1, <1>2

(* One to three labels come in the place of the innermost.                 *)
LEMMA OnMore ==
  ASSUME NEW a \in Label, NEW b \in Label, NEW c \in Label, NEW rest \in Seq(Label)
  PROVE  /\ <<>> \o rest = rest /\ <<a>> \o rest = On(a, rest)
         /\ <<a, b>> \o rest = On(a, On(b, rest))
         /\ <<a, b, c>> \o rest = On(a, On(b, On(c, rest)))
         /\ <<a>> = On(a, <<>>) /\ <<a, b>> = On(a, On(b, <<>>))
  <1>1. /\ <<>> \in Seq(Label) /\ <<a>> \in Seq(Label) /\ <<b>> \in Seq(Label) /\ <<c>> \in Seq(Label)
        /\ <<a, b>> \in Seq(Label)
    OBVIOUS
  <1>2. <<>> \o rest = rest
    BY ConcatEmptySeq
  <1>3. <<a>> \o <<b>> = <<a, b>> /\ <<a, b>> \o <<c>> = <<a, b, c>>
    <2>1. <<a>> \o <<b>> = <<a, b>>
      BY <1>1, Joined
    <2>2. <<a, b>> \o <<c>> = <<a, b, c>>
      BY <1>1, Joined
    <2> QED BY <2>1, <2>2
  <1>4. <<a, b>> \o rest = <<a>> \o (<<b>> \o rest)
    <2>1. (<<a>> \o <<b>>) \o rest = <<a>> \o (<<b>> \o rest)
      BY <1>1, ConcatAssociative
    <2> QED BY <2>1, <1>3
  <1>5. <<a, b, c>> \o rest = <<a>> \o (<<b>> \o (<<c>> \o rest))
    <2>1. (<<a, b>> \o <<c>>) \o rest = <<a, b>> \o (<<c>> \o rest)
      BY <1>1, ConcatAssociative
    <2>2. <<c>> \o rest \in Seq(Label)
      BY <1>1, ConcatProperties
    <2>3. (<<a>> \o <<b>>) \o (<<c>> \o rest) = <<a>> \o (<<b>> \o (<<c>> \o rest))
      BY <1>1, <2>2, ConcatAssociative
    <2> QED BY <2>1, <2>3, <1>3
  <1>6. <<a>> \o <<>> = <<a>> /\ <<b>> \o <<>> = <<b>>
    BY <1>1, ConcatEmptySeq
  <1> QED BY <1>2, <1>3, <1>4, <1>5, <1>6 DEF On

LEMMA WaitingStack ==
  ASSUME NEW call \in Waiting
  PROVE  /\ call \in Seq(Label) /\ call # <<>> /\ Head(call) \in Serving
         /\ call \in Outer => Tail(call) = <<>> /\ call \notin Inner
         /\ call \in Inner =>
              Head(call) = "pool" /\ \E outer \in Outer : Tail(call) = On("new", outer)
  <1>1. ASSUME NEW c \in Outer
        PROVE  c \in Seq(Label) /\ c # <<>> /\ Head(c) \in Serving /\ Tail(c) = <<>>
    <2>1. PICK label \in Serving : c = On(label, <<>>)
      BY DEF Outer
    <2>2. label \in Label /\ <<>> \in Seq(Label)
      BY DEF Label
    <2> QED BY <2>1, <2>2, OnTop
  <1>2. ASSUME NEW c \in Inner
        PROVE  /\ c \in Seq(Label) /\ c # <<>> /\ Head(c) = "pool" /\ Tail(c) # <<>>
               /\ \E outer \in Outer : Tail(c) = On("new", outer)
    <2>1. PICK outer \in Outer : c = On("pool", On("new", outer))
      BY DEF Inner
    <2>2. "pool" \in Label /\ "new" \in Label
      BY DEF Label, Serving, Making
    <2>3. outer \in Seq(Label)
      BY <1>1
    <2>4. On("new", outer) \in Seq(Label) /\ On("new", outer) # <<>>
      BY <2>2, <2>3, OnTop
    <2> QED BY <2>1, <2>2, <2>4, OnTop
  <1>3. call \in Outer \/ call \in Inner
    BY DEF Waiting
  <1>4. "pool" \in Serving
    BY DEF Serving
  <1> QED BY <1>1, <1>2, <1>3, <1>4

-----------------------------------------------------------------------------
(* A thread that is left alone.                                            *)
Alike(u) ==
  /\ stack'[u] = stack[u] /\ dtor'[u] = dtor[u] /\ life'[u] = life[u]
  /\ gpLocalCntx'[u] = gpLocalCntx[u] /\ gvLocalCntx'[u] = gvLocalCntx[u]
  /\ mapRealm'[u] = mapRealm[u] /\ mapPool'[u] = mapPool[u]
  /\ cached'[u] = cached[u]
  /\ u \in doubled' <=> u \in doubled
  /\ u \in settled' <=> u \in settled

(* Main has not taken the global context down.                             *)
Torn == life[Main] = "exit" /\ (stack[Main] = <<>> \/ Top(Main, {"heapDestruct"}))

(* The innermost label and what is below it.                               *)
Stands(t, label, rest) ==
  stack[t] # <<>> /\ Head(stack[t]) = label /\ Tail(stack[t]) = rest

LEMMA AlikeInv ==
  ASSUME NEW u, ThreadInv(u), Alike(u)
  PROVE  ThreadInv(u)'
  <1>1. \A labels : Top(u, labels)' <=> Top(u, labels)
    BY DEF Alike, Top
  <1>2. Rest(u)' = Rest(u)
    BY DEF Alike, Rest
  <1>3. /\ Bare(u)' <=> Bare(u)
        /\ None(u)' <=> None(u)
        /\ Whole(u)' <=> Whole(u)
        /\ First(u)' <=> First(u)
        /\ Second(u)' <=> Second(u)
        /\ mapPool'[u] = mapPool[u]
    BY DEF Alike, Bare, None, Whole, Single, First, Second
  <1>4. \A rest : Named(u, rest)' <=> Named(u, rest)
    BY DEF Alike, Named
  <1>5. Idle(u)' /\ Served(u)'
    BY <1>1, <1>2, <1>3 DEF ThreadInv, Idle, Served, Alike
  <1>6. Constructing(u)'
    BY <1>1, <1>2, <1>3, <1>4 DEF ThreadInv, Constructing, Alike
  <1>7. Destructing(u)' /\ Known(u)'
    BY <1>1, <1>2, <1>3 DEF ThreadInv, Destructing, Known, Alike
  <1> QED BY <1>5, <1>6, <1>7 DEF ThreadInv

(* A step in which no thread begins or ends.                               *)
LEMMA LivingStep ==
  ASSUME NEW t \in Thread, \A u \in Thread : Living(u), life' = life,
         \A u \in Thread \ {t} : Alike(u), Living(t)'
  PROVE  \A u \in Thread : Living(u)'
  <1> SUFFICES ASSUME NEW u \in Thread, u # t PROVE Living(u)'
    OBVIOUS
  <1>1. Alike(u) /\ Living(u)
    OBVIOUS
  <1> QED BY <1>1 DEF Living, Alike, Top

LEMMA ThreadsStep ==
  ASSUME NEW t \in Thread, \A u \in Thread : ThreadInv(u),
         \A u \in Thread \ {t} : Alike(u), ThreadInv(t)'
  PROVE  \A u \in Thread : ThreadInv(u)'
  BY AlikeInv

(* A step that leaves the global context alone.                            *)
LEMMA GlobalStill ==
  ASSUME NEW t \in Thread, GlobalInv, UNCHANGED global, life' = life,
         \A u \in Thread \ {t} : Alike(u),
         t = Main => ~Torn,
         ~Top(t, {"heap", "segment"}), ~Top(t, {"heap", "segment"})',
         gbGlobalCntx = "done" \/ (~gpLocalCntx'[t] /\ mapRealm'[t] = 0 /\ \A u \in Thread : any'[u] = 0)
  PROVE  GlobalInv'
  <1>1. /\ gbGlobalCntx' = gbGlobalCntx /\ gpGlobalCntx' = gpGlobalCntx
        /\ mHeap' = mHeap /\ mReserver' = mReserver
    BY DEF global
  <1>2. \A u \in Thread \ {t} : \A labels : Top(u, labels)' <=> Top(u, labels)
    BY DEF Alike, Top
  <1>3. Main \in Thread
    BY ContextAssumption
  <1>4. \A u \in Thread : Top(u, {"heap", "segment"})' <=> Top(u, {"heap", "segment"})
    BY <1>2
  <1>5. gbGlobalCntx = "running" => Main # t
    BY DEF GlobalInv, Top
  <1>6. gbGlobalCntx = "running" =>
          /\ Top(Main, {"heap"})' <=> Top(Main, {"heap"})
          /\ Top(Main, {"segment"})' <=> Top(Main, {"segment"})
    BY <1>2, <1>3, <1>5
  <1>7. gbGlobalCntx = "done" /\ ~Built => Torn'
    <2> SUFFICES ASSUME gbGlobalCntx = "done", ~Built PROVE Torn'
      OBVIOUS
    <2>1. Torn
      BY DEF GlobalInv, Torn
    <2>2. Main # t
      BY <2>1
    <2>3. Alike(Main) /\ (Top(Main, {"heapDestruct"})' <=> Top(Main, {"heapDestruct"}))
      BY <1>2, <1>3, <2>2
    <2> QED BY <2>1, <2>3 DEF Torn, Alike
  <1>8. gbGlobalCntx # "done" =>
       /\ \A u \in Thread : u # Main => life'[u] = "unborn"
       /\ \A u \in Thread : ~gpLocalCntx'[u] /\ any'[u] = 0 /\ mapRealm'[u] = 0
    BY DEF GlobalInv, Alike
  <1> HIDE DEF Torn
  <1>9. Built' <=> Built
    BY <1>1 DEF Built
  <1>10. Torn' => life'[Main] = "exit" /\ (stack'[Main] = <<>> \/ Top(Main, {"heapDestruct"})')
    BY DEF Torn
  <1> QED BY <1>1, <1>3, <1>4, <1>6, <1>7, <1>8, <1>9, <1>10 DEF GlobalInv

(* While a thread is inside of anything the global context is there, once  *)
(* it has been built.                                                      *)
LEMMA HasBuilt ==
  ASSUME ContextInv, NEW t \in Thread, gbGlobalCntx = "done",
         stack[t] # <<>>, ~Top(t, {"heapDestruct"})
  PROVE  Built /\ ~Torn
  <1>1. ThreadInv(t) /\ Living(t) /\ stack[t] \in Seq(Label) /\ GlobalInv
    BY DEF ContextInv, Types
  <1>2. Head(stack[t]) \in Label
    BY <1>1
  <1>3. ~Torn
    <2> SUFFICES ASSUME Torn PROVE FALSE
      OBVIOUS
    <2>1. t # Main /\ life[Main] = "exit"
      BY DEF Torn
    <2>2. life[t] \notin {"running", "late"} /\ life[t] # "exit"
      BY <1>1, <2>1 DEF Living
    <2>3. ~Top(t, Serving \cup Building \cup Making)
      BY <1>1, <2>2 DEF Living
    <2>4. ~Top(t, Ending) /\ ~Top(t, Closing)
      BY <1>1, <2>2 DEF ThreadInv, Destructing
    <2> QED BY <1>2, <2>3, <2>4 DEF Top, Label
  <1> QED BY <1>1, <1>3 DEF GlobalInv, Torn

(* A thread with a context, or with a call under way, knows that it is.    *)
LEMMA OnlyMainBefore ==
  ASSUME ContextInv, NEW t \in Thread, stack[t] # <<>>, gbGlobalCntx # "done"
  PROVE  t = Main
  <1>1. Living(t) /\ GlobalInv
    BY DEF ContextInv
  <1>2. life[t] # "unborn"
    BY <1>1 DEF Living
  <1> QED BY <1>1, <1>2 DEF GlobalInv

(* Where an action finds its thread.                                       *)
LEMMA InsideStands ==
  ASSUME Types, NEW t \in Thread, NEW label, Inside(t, label)
  PROVE  /\ \E rest \in Seq(Label) : Stands(t, label, rest)
         /\ label \in Label /\ stack[t] \in Seq(Label)
  <1>1. stack[t] \in Seq(Label) /\ stack[t] # <<>> /\ Head(stack[t]) = label
    BY DEF Types, Inside
  <1>2. Head(stack[t]) \in Label /\ Tail(stack[t]) \in Seq(Label)
    BY <1>1
  <1> QED BY <1>1, <1>2 DEF Stands

(* And where it leaves it.                                                 *)
LEMMA Moved ==
  ASSUME Types, NEW t \in Thread, NEW label \in Label, NEW rest \in Seq(Label),
         stack' = [stack EXCEPT ![t] = On(label, rest)]
  PROVE  /\ Stands(t, label, rest)' /\ stack' \in [Thread -> Seq(Label)]
         /\ \A u \in Thread \ {t} : stack'[u] = stack[u]
  <1>1. On(label, rest) \in Seq(Label)
    BY OnTop
  <1>2. stack'[t] = On(label, rest)
    BY DEF Types
  <1> QED BY <1>1, <1>2, OnTop DEF Types, Stands

(* The innermost entry returns.                                            *)
LEMMA Returns ==
  ASSUME Types, NEW t \in Thread, NEW label, NEW rest \in Seq(Label), Stands(t, label, rest),
         Goto(t, <<>>)
  PROVE  /\ stack'[t] = rest /\ stack' \in [Thread -> Seq(Label)]
         /\ \A u \in Thread \ {t} : stack'[u] = stack[u]
  <1>1. <<>> \o Tail(stack[t]) = rest
    BY ConcatEmptySeq DEF Stands
  <1>2. stack' = [stack EXCEPT ![t] = rest]
    BY <1>1 DEF Goto, Types
  <1> QED BY <1>2 DEF Types

(* It gives way to one, or to two others.                                  *)
LEMMA Enters ==
  ASSUME Types, NEW t \in Thread, NEW label, NEW rest \in Seq(Label), Stands(t, label, rest),
         NEW a \in Label, Goto(t, <<a>>)
  PROVE  /\ Stands(t, a, rest)' /\ stack' \in [Thread -> Seq(Label)]
         /\ \A u \in Thread \ {t} : stack'[u] = stack[u]
  <1>1. <<a>> \o Tail(stack[t]) = On(a, rest)
    BY OnMore DEF Stands
  <1>2. stack' = [stack EXCEPT ![t] = On(a, rest)]
    BY <1>1 DEF Goto, Types
  <1> QED BY <1>2, Moved

LEMMA EntersTwo ==
  ASSUME Types, NEW t \in Thread, NEW label, NEW rest \in Seq(Label), Stands(t, label, rest),
         NEW a \in Label, NEW b \in Label, Goto(t, <<a, b>>)
  PROVE  /\ Stands(t, a, On(b, rest))' /\ stack' \in [Thread -> Seq(Label)]
         /\ \A u \in Thread \ {t} : stack'[u] = stack[u]
  <1>1. <<a, b>> \o Tail(stack[t]) = On(a, On(b, rest))
    BY OnMore DEF Stands
  <1>2. stack' = [stack EXCEPT ![t] = On(a, On(b, rest))]
    BY <1>1 DEF Goto, Types
  <1> QED BY <1>2, Moved, OnTop

(* The parts that a step within a call or a destructor has to restore.     *)
LEMMA StepWithin ==
  ASSUME ContextInv, NEW t \in Thread, stack[t] # <<>>, life' = life,
         dtor'[t] \in {dtor[t], "registered"},
         Top(t, Serving \cup Building \cup Making)' => Top(t, Serving \cup Building \cup Making),
         \A u \in Thread \ {t} : Alike(u),
         Types', GlobalInv', Ready', ThreadInv(t)'
  PROVE  ContextInv'
  <1>1. Living(t)'
    BY DEF ContextInv, Living
  <1>2. \A u \in Thread : ThreadInv(u)'
    BY ThreadsStep DEF ContextInv
  <1>3. \A u \in Thread : Living(u)'
    BY <1>1, LivingStep DEF ContextInv
  <1> QED BY <1>2, <1>3 DEF ContextInv

-----------------------------------------------------------------------------
(* The global context.                                                     *)
LEMMA OnceStep ==
  ASSUME ContextInv, NEW t \in Thread, Once(t)
  PROVE  ContextInv'
  <1>1. Types /\ GlobalInv /\ Ready /\ ThreadInv(t) /\ Living(t)
    BY DEF ContextInv
  <1>2. PICK rest \in Seq(Label) : Stands(t, "once", rest)
    BY <1>1, InsideStands DEF Once
  <1>3. PICK call \in Waiting : rest = On("local", call) /\ Named(t, call)
    BY <1>1, <1>2 DEF ThreadInv, Constructing, Stands, Top, Rest, Building
  <1>4. Bare(t) /\ mapRealm[t] <= cnRealm
    BY <1>1, <1>2 DEF ThreadInv, Constructing, Stands, Top, Rest, Building
  <1>5. /\ "local" \in Label /\ "heap" \in Label /\ call \in Seq(Label)
    BY WaitingStack DEF Label, Making, Building
  <1>6. /\ UNCHANGED <<gpGlobalCntx, mHeap, mReserver, gpLocalCntx, gvLocalCntx, mapRealm, mapPool,
                       cached, taken, doubled, dtor, any, life, settled, unready>>
    BY DEF Once, context
  <1>7. Ready'
    BY <1>1, <1>6 DEF Ready
  <1>8. CASE gbGlobalCntx = "never" /\ gbGlobalCntx' = "running" /\ Goto(t, <<"heap">>)
    <2>2. /\ Stands(t, "heap", rest)' /\ stack' \in [Thread -> Seq(Label)]
          /\ \A u \in Thread \ {t} : stack'[u] = stack[u]
      BY <1>1, <1>2, <1>5, <1>8, Enters
    <2>3. t = Main
      BY <1>8, <1>2, OnlyMainBefore DEF Stands
    <2>4. \A u \in Thread \ {t} : Alike(u)
      BY <1>6, <2>2 DEF Alike
    <2>5. ThreadInv(t)'
      BY <1>1, <1>2, <1>3, <1>4, <1>6, <2>2
         DEF ThreadInv, Idle, Constructing, Served, Destructing, Known, Stands, Top, Rest,
             Bare, None, Whole, Single, First, Second, Named, Making, Building, Serving, Ending, Closing
    <2>6. GlobalInv'
      BY <1>1, <1>6, <1>8, <2>2, <2>3 DEF GlobalInv, Top, Stands
    <2>7. Types'
      BY <1>1, <1>6, <1>8, <2>2 DEF Types
    <2>8. Top(t, Serving \cup Building \cup Making)
      BY <1>2 DEF Top, Stands, Building
    <2> QED BY <1>2, <1>6, <1>7, <2>4, <2>5, <2>6, <2>7, <2>8, StepWithin DEF Stands
  <1>9. CASE gbGlobalCntx = "done" /\ gpGlobalCntx /\ Goto(t, <<>>) /\ UNCHANGED gbGlobalCntx
    <2>1. stack'[t] = rest /\ stack' \in [Thread -> Seq(Label)]
          /\ \A u \in Thread \ {t} : stack'[u] = stack[u]
      BY <1>1, <1>2, <1>9, Returns
    <2>2. Stands(t, "local", call)'
      <3>1. rest # <<>> /\ Head(rest) = "local" /\ Tail(rest) = call
        BY <1>3, <1>5, OnTop
      <3> QED BY <2>1, <3>1 DEF Stands
    <2>4. \A u \in Thread \ {t} : Alike(u)
      BY <1>6, <2>1 DEF Alike
    <2>5. ThreadInv(t)'
      BY <1>1, <1>2, <1>3, <1>4, <1>6, <2>2
         DEF ThreadInv, Idle, Constructing, Served, Destructing, Known, Stands, Top, Rest,
             Bare, None, Whole, Single, First, Second, Named, Making, Building, Serving, Ending, Closing
    <2>6. GlobalInv'
      <3>1. ~Torn
        BY <1>2, <1>9, HasBuilt DEF Stands, Top
      <3>2. ~Top(t, {"heap", "segment"}) /\ ~Top(t, {"heap", "segment"})'
        BY <1>2, <2>2 DEF Stands, Top
      <3> QED BY <1>1, <1>6, <1>9, <2>4, <3>1, <3>2, GlobalStill DEF global
    <2>7. Types'
      BY <1>1, <1>6, <1>9, <2>1 DEF Types
    <2>8. Top(t, Serving \cup Building \cup Making)
      BY <1>2 DEF Top, Stands, Building
    <2> QED BY <1>2, <1>6, <1>7, <2>4, <2>5, <2>6, <2>7, <2>8, StepWithin DEF Stands
  <1> QED BY <1>8, <1>9 DEF Once

LEMMA ConstructHeapStep ==
  ASSUME ContextInv, NEW t \in Thread, ConstructHeap(t)
  PROVE  ContextInv'
  <1>1. Types /\ GlobalInv /\ Ready /\ ThreadInv(t) /\ Living(t)
    BY DEF ContextInv
  <1>2. PICK rest \in Seq(Label) : Stands(t, "heap", rest)
    BY <1>1, InsideStands DEF ConstructHeap
  <1>3. t = Main /\ gbGlobalCntx = "running" /\ mReserver = 0
    <2>1. Top(t, {"heap", "segment"}) /\ ~Top(t, {"segment"})
      BY <1>2 DEF Stands, Top
    <2> QED BY <1>1, <2>1 DEF GlobalInv, Types
  <1>4. /\ UNCHANGED <<gbGlobalCntx, mReserver, gpLocalCntx, gvLocalCntx, mapRealm, mapPool,
                       cached, taken, doubled, dtor, any, life, settled, unready>>
        /\ gpGlobalCntx' = TRUE /\ mHeap' = TRUE
    BY DEF ConstructHeap, context
  <1>5. "segment" \in Label /\ Goto(t, <<"segment">>)
    BY DEF Label, Building, ConstructHeap
  <1>6. /\ Stands(t, "segment", rest)' /\ stack' \in [Thread -> Seq(Label)]
        /\ \A u \in Thread \ {t} : stack'[u] = stack[u]
    BY <1>1, <1>2, <1>5, Enters
  <1>7. \A u \in Thread \ {t} : Alike(u)
    BY <1>4, <1>6 DEF Alike
  <1>8. ThreadInv(t)'
    BY <1>1, <1>2, <1>4, <1>6
       DEF ThreadInv, Idle, Constructing, Served, Destructing, Known, Stands, Top, Rest,
           Bare, None, Whole, Single, First, Second, Named, Making, Building, Serving, Ending, Closing
  <1>9. cnRealm \in Nat
    BY ContextAssumption
  <1>10. GlobalInv'
    BY <1>1, <1>3, <1>4, <1>6, <1>9 DEF GlobalInv, Top, Stands
  <1>11. Types' /\ Ready'
    BY <1>1, <1>4, <1>6 DEF Types, Ready
  <1>12. Top(t, Serving \cup Building \cup Making)
    BY <1>2 DEF Top, Stands, Building
  <1> QED BY <1>2, <1>4, <1>7, <1>8, <1>10, <1>11, <1>12, StepWithin DEF Stands

LEMMA ConstructSegmentStep ==
  ASSUME ContextInv, NEW t \in Thread, ConstructSegment(t)
  PROVE  ContextInv'
  <1>1. Types /\ GlobalInv /\ Ready /\ ThreadInv(t) /\ Living(t)
    BY DEF ContextInv
  <1>2. PICK rest \in Seq(Label) : Stands(t, "segment", rest)
    BY <1>1, InsideStands DEF ConstructSegment
  <1>3. /\ t = Main /\ gbGlobalCntx = "running" /\ gpGlobalCntx /\ mHeap
        /\ mReserver \in 0 .. cnRealm
    <2>1. Top(t, {"heap", "segment"}) /\ ~Top(t, {"heap"})
      BY <1>2 DEF Stands, Top
    <2> QED BY <1>1, <2>1 DEF GlobalInv, Types
  <1>4. UNCHANGED <<gpGlobalCntx, mHeap, gpLocalCntx, gvLocalCntx, mapRealm, mapPool,
                    cached, taken, doubled, dtor, any, life, settled>>
    BY DEF ConstructSegment, context
  <1>5. cnRealm \in Nat
    BY ContextAssumption
  <1>6. Top(t, Serving \cup Building \cup Making)
    BY <1>2 DEF Top, Stands, Building
  <1>7. CASE mReserver < cnRealm /\ HeapAlloc /\ mReserver' = mReserver + 1
             /\ UNCHANGED <<gbGlobalCntx, stack>>
    <2>1. \A u \in Thread : Alike(u)
      BY <1>4, <1>7 DEF Alike
    <2>2. ThreadInv(t)'
      BY <1>1, <2>1, AlikeInv
    <2>3. mReserver' \in 0 .. cnRealm
      BY <1>3, <1>5, <1>7
    <2>4. GlobalInv'
      BY <1>1, <1>2, <1>3, <1>4, <1>7, <2>3 DEF GlobalInv, Top, Stands
    <2>5. Types' /\ Ready'
      BY <1>1, <1>3, <1>4, <1>7 DEF Types, Ready, HeapAlloc, Uses
    <2> QED BY <1>2, <1>4, <1>6, <2>1, <2>2, <2>4, <2>5, StepWithin DEF Stands
  <1>8. CASE mReserver = cnRealm /\ gbGlobalCntx' = "done" /\ Goto(t, <<>>)
             /\ UNCHANGED <<mReserver, unready>>
    <2>1. PICK call \in Waiting : rest = On("local", call) /\ Named(t, call)
      BY <1>1, <1>2 DEF ThreadInv, Constructing, Stands, Top, Rest, Building
    <2>2. Bare(t) /\ mapRealm[t] <= cnRealm
      BY <1>1, <1>2 DEF ThreadInv, Constructing, Stands, Top, Rest, Building
    <2>3. "local" \in Label /\ call \in Seq(Label)
      BY WaitingStack DEF Label, Making
    <2>4. stack'[t] = rest /\ stack' \in [Thread -> Seq(Label)]
          /\ \A u \in Thread \ {t} : stack'[u] = stack[u]
      BY <1>1, <1>2, <1>8, Returns
    <2>5. Stands(t, "local", call)'
      BY <2>1, <2>3, <2>4, OnTop DEF Stands
    <2>6. \A u \in Thread \ {t} : Alike(u)
      BY <1>4, <2>4 DEF Alike
    <2>7. ThreadInv(t)'
      BY <1>1, <1>2, <1>4, <2>1, <2>2, <2>5
         DEF ThreadInv, Idle, Constructing, Served, Destructing, Known, Stands, Top, Rest,
             Bare, None, Whole, Single, First, Second, Named, Making, Building, Serving, Ending, Closing
    <2>8. GlobalInv'
      BY <1>1, <1>3, <1>4, <1>8, <2>4, <2>5 DEF GlobalInv, Top, Stands, Built
    <2>9. Types' /\ Ready'
      BY <1>1, <1>4, <1>8, <2>4 DEF Types, Ready
    <2> QED BY <1>2, <1>4, <1>6, <2>6, <2>7, <2>8, <2>9, StepWithin DEF Stands
  <1> QED BY <1>3, <1>7, <1>8 DEF ConstructSegment

-----------------------------------------------------------------------------
(* The context of a thread.                                                *)
LEMMA PtrStep ==
  ASSUME ContextInv, NEW t \in Thread, Ptr(t)
  PROVE  ContextInv'
  <1>1. Types /\ GlobalInv /\ Ready /\ ThreadInv(t) /\ Living(t)
    BY DEF ContextInv
  <1>2. PICK rest \in Seq(Label) : Stands(t, "ptr", rest)
    BY <1>1, InsideStands DEF Ptr
  <1>3. /\ rest \in Waiting
        /\ (None(t) /\ Named(t, rest)) \/ (Whole(t) /\ rest \in Outer)
    BY <1>1, <1>2 DEF ThreadInv, Constructing, Stands, Top, Rest, Making
  <1>4. /\ UNCHANGED <<global, gpLocalCntx, gvLocalCntx, mapRealm, mapPool,
                       cached, taken, doubled, dtor, any, life, settled, unready>>
        /\ Goto(t, IF gpLocalCntx[t] THEN <<>> ELSE <<"name">>)
    BY DEF Ptr, context
  <1>5. Top(t, Serving \cup Building \cup Making) /\ ~Top(t, {"heap", "segment"})
    BY <1>2 DEF Top, Stands, Making
  <1>6. Types' /\ Ready' /\ (\A u \in Thread \ {t} : Alike(u)) /\ ThreadInv(t)'
        /\ ~Top(t, {"heap", "segment"})'
    <2>1. CASE gpLocalCntx[t]
      <3>1. Whole(t) /\ rest \in Outer
        BY <1>3, <2>1 DEF None, Bare
      <3>2. Head(rest) \in Serving /\ rest # <<>> /\ rest \notin Inner
        BY <1>3, <3>1, WaitingStack
      <3>3. Goto(t, <<>>)
        BY <1>4, <2>1
      <3>4. stack'[t] = rest /\ stack' \in [Thread -> Seq(Label)]
            /\ \A u \in Thread \ {t} : stack'[u] = stack[u]
        BY <1>1, <1>2, <3>3, Returns
      <3>5. ThreadInv(t)'
        BY <1>1, <1>2, <1>3, <1>4, <3>1, <3>2, <3>4
           DEF ThreadInv, Idle, Constructing, Served, Destructing, Known, Stands, Top, Rest,
               Bare, None, Whole, Single, First, Second, Named, Making, Building, Serving, Ending, Closing
      <3>6. ~Top(t, {"heap", "segment"})'
        BY <3>2, <3>4 DEF Top, Serving
      <3> QED BY <1>1, <1>4, <3>4, <3>5, <3>6 DEF Types, Ready, Alike, global
    <2>2. CASE ~gpLocalCntx[t]
      <3>1. None(t) /\ Named(t, rest)
        BY <1>3, <2>2 DEF Whole
      <3>3. "name" \in Label /\ Goto(t, <<"name">>)
        BY <1>4, <2>2 DEF Label, Making
      <3>4. /\ Stands(t, "name", rest)' /\ stack' \in [Thread -> Seq(Label)]
            /\ \A u \in Thread \ {t} : stack'[u] = stack[u]
        BY <1>1, <1>2, <3>3, Enters
      <3>5. ThreadInv(t)'
        BY <1>1, <1>2, <1>3, <1>4, <3>1, <3>4
           DEF ThreadInv, Idle, Constructing, Served, Destructing, Known, Stands, Top, Rest,
               Bare, None, Whole, Single, First, Second, Named, Making, Building, Serving, Ending, Closing
      <3>6. ~Top(t, {"heap", "segment"})'
        BY <3>4 DEF Top, Stands
      <3> QED BY <1>1, <1>4, <3>4, <3>5, <3>6 DEF Types, Ready, Alike, global
    <2> QED BY <2>1, <2>2
  <1>7. GlobalInv'
    <2>1. t = Main => ~Torn
      BY <1>2, HasBuilt DEF Stands, Top, Torn, ContextInv, GlobalInv, Living, Making
    <2>2. gbGlobalCntx = "done" \/ (~gpLocalCntx'[t] /\ mapRealm'[t] = 0 /\ \A u \in Thread : any'[u] = 0)
      BY <1>1, <1>4 DEF GlobalInv
    <2>3. UNCHANGED global /\ life' = life
      BY <1>4
    <2>4. GlobalInv /\ ~Top(t, {"heap", "segment"}) /\ ~Top(t, {"heap", "segment"})'
      BY <1>1, <1>5, <1>6
    <2>5. \A u \in Thread \ {t} : Alike(u)
      BY <1>6
    <2> HIDE DEF GlobalInv
    <2> QED BY <2>1, <2>2, <2>3, <2>4, <2>5, GlobalStill
  <1> QED BY <1>2, <1>4, <1>5, <1>6, <1>7, StepWithin DEF Stands

LEMMA NameStep ==
  ASSUME ContextInv, NEW t \in Thread, Name(t)
  PROVE  ContextInv'
  <1>1. Types /\ GlobalInv /\ Ready /\ ThreadInv(t) /\ Living(t)
    BY DEF ContextInv
  <1>2. PICK rest \in Seq(Label) : Stands(t, "name", rest)
    BY <1>1, InsideStands DEF Name
  <1>3. rest \in Waiting /\ None(t) /\ Named(t, rest)
    BY <1>1, <1>2 DEF ThreadInv, Constructing, Stands, Top, Rest, Making
  <1>4. /\ UNCHANGED <<global, gpLocalCntx, gvLocalCntx, mapRealm, mapPool,
                       cached, taken, doubled, any, life, settled, unready>>
        /\ dtor' = [dtor EXCEPT ![t] = IF @ = "unknown" THEN "registered" ELSE @]
    BY DEF Name, context
  <1>5. /\ dtor' \in [Thread -> {"unknown", "registered", "run"}]
        /\ dtor'[t] = IF dtor[t] = "unknown" THEN "registered" ELSE dtor[t]
        /\ \A u \in Thread \ {t} : dtor'[u] = dtor[u]
    BY <1>1, <1>4 DEF Types
  <1>6. Top(t, Serving \cup Building \cup Making) /\ ~Top(t, {"heap", "segment"})
    BY <1>2 DEF Top, Stands, Making
  <1>7. \E label \in {"new", "ptr"}, below \in Waiting :
          /\ Stands(t, label, below)' /\ stack' \in [Thread -> Seq(Label)]
          /\ \A u \in Thread \ {t} : stack'[u] = stack[u]
          /\ below \in Inner => t \notin doubled
    <2>1. CASE Goto(t, <<"new">>)
      <3>1. "new" \in Label
        BY DEF Label, Making
      <3>2. /\ Stands(t, "new", rest)' /\ stack' \in [Thread -> Seq(Label)]
            /\ \A u \in Thread \ {t} : stack'[u] = stack[u]
        BY <1>1, <1>2, <2>1, <3>1, Enters
      <3> QED BY <1>3, <3>2 DEF Named
    <2>2. CASE dtor[t] = "unknown" /\ Goto(t, <<"ptr", "pool", "new">>)
      <3>1. rest \in Outer /\ t \notin doubled
        BY <1>1, <1>3, <2>2 DEF Named, Waiting, ThreadInv, Known
      <3>2. "ptr" \in Label /\ "pool" \in Label /\ "new" \in Label
        BY DEF Label, Making, Serving
      <3> DEFINE below == On("pool", On("new", rest))
      <3>3. below \in Inner /\ below \in Waiting
        BY <3>1 DEF Inner, Waiting
      <3>4. below \in Seq(Label)
        BY <3>3, WaitingStack
      <3>5. <<"ptr", "pool", "new">> \o Tail(stack[t]) = On("ptr", below)
        <4>1. <<"ptr", "pool", "new">> \o rest = On("ptr", On("pool", On("new", rest)))
          BY <3>2, OnMore, Zenon
        <4> QED BY <4>1, <1>2 DEF Stands
      <3> HIDE DEF below
      <3>6. stack' = [stack EXCEPT ![t] = On("ptr", below)]
        BY <1>1, <2>2, <3>5 DEF Goto, Types
      <3>7. /\ Stands(t, "ptr", below)' /\ stack' \in [Thread -> Seq(Label)]
            /\ \A u \in Thread \ {t} : stack'[u] = stack[u]
        BY <1>1, <3>2, <3>4, <3>6, Moved
      <3> QED BY <3>1, <3>3, <3>7
    <2> QED BY <2>1, <2>2 DEF Name
  <1>8. PICK label \in {"new", "ptr"}, below \in Waiting :
          /\ Stands(t, label, below)' /\ stack' \in [Thread -> Seq(Label)]
          /\ \A u \in Thread \ {t} : stack'[u] = stack[u]
          /\ below \in Inner => t \notin doubled
    BY <1>7
  <1>9. ThreadInv(t)'
    BY <1>1, <1>2, <1>3, <1>4, <1>5, <1>8
       DEF ThreadInv, Idle, Constructing, Served, Destructing, Known, Stands, Top, Rest,
           Bare, None, Whole, Single, First, Second, Named, Making, Building, Serving, Ending, Closing
  <1>10. \A u \in Thread \ {t} : Alike(u)
    BY <1>4, <1>5, <1>8 DEF Alike
  <1>11. GlobalInv'
    <2>1. t = Main => ~Torn
      BY <1>2 DEF Torn, Stands, Top
    <2>2. gbGlobalCntx = "done" \/ (~gpLocalCntx'[t] /\ mapRealm'[t] = 0 /\ \A u \in Thread : any'[u] = 0)
      BY <1>1, <1>4 DEF GlobalInv
    <2>3. UNCHANGED global /\ life' = life
      BY <1>4
    <2>4. ~Top(t, {"heap", "segment"})'
      BY <1>8 DEF Top, Stands
    <2> QED BY <1>1, <1>6, <1>10, <2>1, <2>2, <2>3, <2>4, GlobalStill
  <1>12. Types' /\ Ready'
    BY <1>1, <1>4, <1>5, <1>8 DEF Types, Ready, global
  <1>13. dtor'[t] \in {dtor[t], "registered"}
    BY <1>5
  <1> QED BY <1>2, <1>4, <1>6, <1>9, <1>10, <1>11, <1>12, <1>13, StepWithin DEF Stands

LEMMA NewStep ==
  ASSUME ContextInv, NEW t \in Thread, New(t)
  PROVE  ContextInv'
  <1>1. Types /\ GlobalInv /\ Ready /\ ThreadInv(t) /\ Living(t)
    BY DEF ContextInv
  <1>2. PICK rest \in Seq(Label) : Stands(t, "new", rest)
    BY <1>1, InsideStands DEF New
  <1>3. /\ rest \in Waiting
        /\ (None(t) /\ Named(t, rest)) \/ (Whole(t) /\ First(t) /\ mapPool[t] /\ rest \in Outer)
    BY <1>1, <1>2 DEF ThreadInv, Constructing, Stands, Top, Rest, Making
  <1>4. /\ UNCHANGED <<global, gpLocalCntx, gvLocalCntx, mapPool, taken, dtor,
                       any, life, settled, unready>>
        /\ mapRealm' = [mapRealm EXCEPT ![t] = 0]
        /\ cached' = [cached EXCEPT ![t] = 0]
        /\ doubled' = IF gpLocalCntx[t] THEN doubled \cup {t} ELSE doubled
        /\ Goto(t, <<"local">>)
    BY DEF New
  <1>5. /\ mapRealm' \in [Thread -> Nat] /\ mapRealm'[t] = 0
        /\ cached' \in [Thread -> Nat] /\ cached'[t] = 0
        /\ \A u \in Thread \ {t} : mapRealm'[u] = mapRealm[u] /\ cached'[u] = cached[u]
        /\ doubled' \subseteq Thread /\ \A u \in Thread \ {t} : u \in doubled' <=> u \in doubled
    BY <1>1, <1>4 DEF Types
  <1>6. Top(t, Serving \cup Building \cup Making) /\ ~Top(t, {"heap", "segment"})
    BY <1>2 DEF Top, Stands, Making
  <1>7. "local" \in Label /\ cnRealm \in Nat
    BY ContextAssumption DEF Label, Making
  <1>8. /\ Stands(t, "local", rest)' /\ stack' \in [Thread -> Seq(Label)]
        /\ \A u \in Thread \ {t} : stack'[u] = stack[u]
    BY <1>1, <1>2, <1>4, <1>7, Enters
  <1>9. ThreadInv(t)'
    <2>1. (Bare(t)' /\ Named(t, rest)') \/ (Second(t)' /\ rest \in Outer)
      BY <1>3, <1>4, <1>5 DEF None, Bare, Named, Single, First, Second
    <2>2. dtor[t] # "unknown" /\ t \notin settled
      BY <1>1, <1>2 DEF ThreadInv, Known, Stands, Top, Ending, Closing
    <2>3. mapRealm'[t] <= cnRealm
      BY <1>5, <1>7
    <2> QED BY <1>3, <1>4, <1>8, <2>1, <2>2, <2>3
          DEF ThreadInv, Idle, Constructing, Served, Destructing, Known, Stands, Top, Rest,
              Making, Building, Serving, Ending, Closing
  <1>10. \A u \in Thread \ {t} : Alike(u)
    BY <1>4, <1>5, <1>8 DEF Alike
  <1>11. GlobalInv'
    <2>1. t = Main => ~Torn
      BY <1>2 DEF Torn, Stands, Top
    <2>2. gbGlobalCntx = "done" \/ (~gpLocalCntx'[t] /\ mapRealm'[t] = 0 /\ \A u \in Thread : any'[u] = 0)
      BY <1>1, <1>4, <1>5 DEF GlobalInv
    <2>3. UNCHANGED global /\ life' = life
      BY <1>4
    <2>4. ~Top(t, {"heap", "segment"})'
      BY <1>8 DEF Top, Stands
    <2> QED BY <1>1, <1>6, <1>10, <2>1, <2>2, <2>3, <2>4, GlobalStill
  <1>12. Types' /\ Ready'
    BY <1>1, <1>4, <1>5, <1>8 DEF Types, Ready, global
  <1> QED BY <1>2, <1>4, <1>6, <1>9, <1>10, <1>11, <1>12, StepWithin DEF Stands

LEMMA LocalSegmentStep ==
  ASSUME ContextInv, NEW t \in Thread, LocalSegment(t)
  PROVE  ContextInv'
  <1>1. Types /\ GlobalInv /\ Ready /\ ThreadInv(t) /\ Living(t)
    BY DEF ContextInv
  <1>2. PICK rest \in Seq(Label) : Stands(t, "local", rest)
    BY <1>1, InsideStands DEF LocalSegment
  <1>3. /\ rest \in Waiting
        /\ (Bare(t) /\ Named(t, rest)) \/ (Second(t) /\ rest \in Outer)
        /\ mapRealm[t] <= cnRealm
    BY <1>1, <1>2 DEF ThreadInv, Constructing, Stands, Top, Rest, Making
  <1>4. /\ UNCHANGED <<global, gpLocalCntx, gvLocalCntx, mapPool, cached, doubled, dtor,
                       any, life, settled>>
        /\ mapRealm[t] < cnRealm
    BY DEF LocalSegment
  <1>5. Top(t, Serving \cup Building \cup Making) /\ ~Top(t, {"heap", "segment"})
    BY <1>2 DEF Top, Stands, Making
  <1>6. cnRealm \in Nat /\ mapRealm[t] \in Nat
    BY <1>1, ContextAssumption DEF Types
  <1>7. gpLocalCntx[t] \/ gpGlobalCntx => gbGlobalCntx = "done" /\ Built
    <2>1. SUFFICES ASSUME gpLocalCntx[t] \/ gpGlobalCntx, gbGlobalCntx # "done" PROVE FALSE
      BY <1>2, HasBuilt DEF Stands, Top
    <2>2. t = Main
      BY <1>2, <2>1, OnlyMainBefore DEF Stands
    <2> QED BY <1>1, <1>5, <2>1, <2>2 DEF GlobalInv, Top, Types
  <1>8. t = Main => ~Torn
    BY <1>2 DEF Torn, Stands, Top
  <1>9. UNCHANGED global /\ life' = life
    BY <1>4
  <1>10. CASE ~gpGlobalCntx /\ Goto(t, <<"once", "local">>) /\ UNCHANGED <<mapRealm, taken, unready>>
    <2>1. Bare(t) /\ Named(t, rest)
      BY <1>3, <1>7, <1>10 DEF Single, Second, Built
    <2>2. "once" \in Label /\ "local" \in Label
      BY DEF Label, Building, Making
    <2>3. /\ Stands(t, "once", On("local", rest))' /\ stack' \in [Thread -> Seq(Label)]
          /\ \A u \in Thread \ {t} : stack'[u] = stack[u]
      BY <1>1, <1>2, <1>10, <2>2, EntersTwo
    <2>4. ThreadInv(t)'
      BY <1>1, <1>2, <1>3, <1>4, <1>10, <2>1, <2>3
         DEF ThreadInv, Idle, Constructing, Served, Destructing, Known, Stands, Top, Rest,
             Bare, None, Whole, Single, First, Second, Named, Making, Building, Serving, Ending, Closing
    <2>5. \A u \in Thread \ {t} : Alike(u)
      BY <1>4, <1>10, <2>3 DEF Alike
    <2>6. GlobalInv'
      <3>1. gbGlobalCntx = "done" \/ (~gpLocalCntx'[t] /\ mapRealm'[t] = 0 /\ \A u \in Thread : any'[u] = 0)
        BY <1>1, <1>4, <1>10 DEF GlobalInv
      <3>2. ~Top(t, {"heap", "segment"})'
        BY <2>3 DEF Top, Stands
      <3> QED BY <1>1, <1>5, <1>8, <1>9, <2>5, <3>1, <3>2, GlobalStill
    <2>7. Types' /\ Ready'
      BY <1>1, <1>4, <1>10, <2>3 DEF Types, Ready, global
    <2> QED BY <1>2, <1>4, <1>5, <2>4, <2>5, <2>6, <2>7, StepWithin DEF Stands
  <1>11. CASE gpGlobalCntx /\ ReserverAlloc /\ mapRealm' = [mapRealm EXCEPT ![t] = @ + 1]
              /\ taken' = [taken EXCEPT ![t] = @ + 1] /\ UNCHANGED stack
    <2>1. /\ mapRealm' \in [Thread -> Nat] /\ mapRealm'[t] = mapRealm[t] + 1
          /\ mapRealm'[t] <= cnRealm
          /\ \A u \in Thread \ {t} : mapRealm'[u] = mapRealm[u]
          /\ taken' \in [Thread -> Int]
      BY <1>1, <1>4, <1>6, <1>11 DEF Types
    <2>2. Stands(t, "local", rest)'
      BY <1>2, <1>11 DEF Stands
    <2>3. ThreadInv(t)'
      BY <1>1, <1>2, <1>3, <1>4, <1>11, <2>1, <2>2
         DEF ThreadInv, Idle, Constructing, Served, Destructing, Known, Stands, Top, Rest,
             Bare, None, Whole, Single, First, Second, Named, Making, Building, Serving, Ending, Closing
    <2>4. \A u \in Thread \ {t} : Alike(u)
      BY <1>4, <1>11, <2>1 DEF Alike
    <2>5. ~Top(t, {"heap", "segment"})'
      BY <2>2 DEF Top, Stands
    <2>6. GlobalInv'
      BY <1>1, <1>5, <1>7, <1>8, <1>9, <1>11, <2>4, <2>5, GlobalStill
    <2>7. Types' /\ Ready'
      BY <1>1, <1>4, <1>7, <1>11, <2>1
         DEF Types, Ready, global, ReserverAlloc, Uses, ReserverReady, Built
    <2> QED BY <1>2, <1>4, <1>5, <2>3, <2>4, <2>6, <2>7, StepWithin DEF Stands
  <1> QED BY <1>10, <1>11 DEF LocalSegment

LEMMA BodyStep ==
  ASSUME ContextInv, NEW t \in Thread, Body(t)
  PROVE  ContextInv'
  <1>1. Types /\ GlobalInv /\ Ready /\ ThreadInv(t) /\ Living(t)
    BY DEF ContextInv
  <1>2. PICK rest \in Seq(Label) : Stands(t, "local", rest)
    BY <1>1, InsideStands DEF Body
  <1>3. /\ rest \in Waiting
        /\ (Bare(t) /\ Named(t, rest)) \/ (Second(t) /\ rest \in Outer)
    BY <1>1, <1>2 DEF ThreadInv, Constructing, Stands, Top, Rest, Making
  <1>4. /\ UNCHANGED <<global, mapRealm, cached, taken, doubled, dtor, any, life, settled, unready>>
        /\ mapRealm[t] = cnRealm
        /\ mapPool' = [mapPool EXCEPT ![t] = FALSE]
        /\ gvLocalCntx' = [gvLocalCntx EXCEPT ![t] = (@ + 1) % 256]
        /\ gpLocalCntx' = [gpLocalCntx EXCEPT ![t] = @ \/ gvLocalCntx[t] = 0]
        /\ Goto(t, <<>>)
    BY DEF Body
  <1>5. /\ mapPool' \in [Thread -> BOOLEAN]
        /\ gvLocalCntx' \in [Thread -> Nat] /\ gpLocalCntx' \in [Thread -> BOOLEAN]
        /\ \A u \in Thread \ {t} :
             /\ mapPool'[u] = mapPool[u]
             /\ gvLocalCntx'[u] = gvLocalCntx[u] /\ gpLocalCntx'[u] = gpLocalCntx[u]
    BY <1>1, <1>4 DEF Types
  <1>6. /\ mapPool'[t] = FALSE
        /\ gvLocalCntx'[t] = (gvLocalCntx[t] + 1) % 256
        /\ gpLocalCntx'[t] = (gpLocalCntx[t] \/ gvLocalCntx[t] = 0)
    <2>1. mapPool'[t] = FALSE
      BY <1>1, <1>4 DEF Types
    <2>2. gvLocalCntx'[t] = (gvLocalCntx[t] + 1) % 256
      BY <1>1, <1>4 DEF Types
    <2>3. gpLocalCntx'[t] = (gpLocalCntx[t] \/ gvLocalCntx[t] = 0)
      BY <1>1, <1>4 DEF Types
    <2> QED BY <2>1, <2>2, <2>3
  <1>7. Top(t, Serving \cup Building \cup Making) /\ ~Top(t, {"heap", "segment"})
    BY <1>2 DEF Top, Stands, Making
  <1>8. rest # <<>> /\ Head(rest) \in Serving /\ (rest \in Outer => rest \notin Inner)
    BY <1>3, WaitingStack
  <1>9. /\ stack'[t] = rest /\ stack' \in [Thread -> Seq(Label)]
        /\ \A u \in Thread \ {t} : stack'[u] = stack[u]
    BY <1>1, <1>2, <1>4, Returns
  <1>10. /\ Whole(t)'
         /\ rest \in Inner => First(t)'
    <2>1. CASE Bare(t) /\ Named(t, rest)
      <3>1. gvLocalCntx'[t] = 1 /\ gpLocalCntx'[t]
        <4>1. gvLocalCntx[t] = 0
          BY <2>1 DEF Bare
        <4>2. gvLocalCntx'[t] = 1
          BY <1>6, <4>1
        <4>3. gpLocalCntx'[t]
          BY <1>6, <4>1
        <4> QED BY <4>2, <4>3
      <3> QED BY <1>4, <2>1, <3>1 DEF Whole, Single, First, Named, Bare
    <2>2. CASE Second(t) /\ rest \in Outer
      <3>1. gvLocalCntx'[t] = 2 /\ gpLocalCntx'[t]
        <4>1. gpLocalCntx[t] /\ gvLocalCntx[t] = 1
          BY <2>2 DEF Single, Second
        <4>2. gvLocalCntx'[t] = 2
          BY <1>6, <4>1
        <4>3. gpLocalCntx'[t]
          BY <1>6, <4>1
        <4> QED BY <4>2, <4>3
      <3> QED BY <1>4, <1>8, <2>2, <3>1 DEF Whole
    <2> QED BY <1>3, <2>1, <2>2
  <1>11. dtor[t] # "unknown" /\ t \notin settled
    BY <1>1, <1>2 DEF ThreadInv, Known, Stands, Top, Ending, Closing
  <1>12. ThreadInv(t)'
    BY <1>3, <1>4, <1>8, <1>9, <1>10, <1>11
       DEF ThreadInv, Idle, Constructing, Served, Destructing, Known, Top,
           Making, Building, Serving, Ending, Closing
  <1>13. \A u \in Thread \ {t} : Alike(u)
    BY <1>4, <1>5, <1>9 DEF Alike
  <1>14. GlobalInv'
    <2>1. t = Main => ~Torn
      BY <1>2 DEF Torn, Stands, Top
    <2>2. gbGlobalCntx = "done"
      BY <1>1, <1>4, ContextAssumption DEF GlobalInv
    <2>3. UNCHANGED global /\ life' = life
      BY <1>4
    <2>4. ~Top(t, {"heap", "segment"})'
      BY <1>8, <1>9 DEF Top, Serving
    <2> QED BY <1>1, <1>7, <1>13, <2>1, <2>2, <2>3, <2>4, GlobalStill
  <1>15. Types' /\ Ready'
    BY <1>1, <1>4, <1>5, <1>9 DEF Types, Ready, global
  <1>16. Top(t, Serving \cup Building \cup Making)' => Top(t, Serving \cup Building \cup Making)
    BY <1>7
  <1> QED BY <1>2, <1>4, <1>12, <1>13, <1>14, <1>15, <1>16, StepWithin DEF Stands

-----------------------------------------------------------------------------
(* The calls.                                                              *)
LEMMA ServedReady ==
  ASSUME ContextInv, NEW t \in Thread, gpLocalCntx[t], stack[t] # <<>>, ~Top(t, {"heapDestruct"})
  PROVE  ReserverReady /\ gbGlobalCntx = "done" /\ ~Torn
  <1>1. gbGlobalCntx = "done"
    BY DEF ContextInv, GlobalInv
  <1> QED BY <1>1, HasBuilt DEF ReserverReady, Built

LEMMA AllocPoolStep ==
  ASSUME ContextInv, NEW t \in Thread, AllocPool(t)
  PROVE  ContextInv'
  <1>1. Types /\ GlobalInv /\ Ready /\ ThreadInv(t) /\ Living(t)
    BY DEF ContextInv
  <1>2. PICK rest \in Seq(Label) : Stands(t, "pool", rest)
    BY <1>1, InsideStands DEF AllocPool
  <1>3. /\ UNCHANGED <<global, gpLocalCntx, gvLocalCntx, mapRealm, cached, doubled,
                       dtor, any, life, settled>>
        /\ mapPool' = [mapPool EXCEPT ![t] = TRUE]
        /\ taken' = [taken EXCEPT ![t] = IF mapPool[t] THEN @ ELSE @ + 1]
        /\ Goto(t, <<>>) /\ Uses(LocalReady(t), "local")
    BY DEF AllocPool
  <1>4. Top(t, Serving \cup Building \cup Making) /\ ~Top(t, {"heap", "segment"})
        /\ ~Top(t, {"heapDestruct"})
    BY <1>2 DEF Top, Stands, Serving
  <1>5. stack[t] \in Waiting /\ Whole(t) /\ (stack[t] \in Inner => First(t))
    BY <1>1, <1>2 DEF ThreadInv, Served, Stands, Top, Serving
  <1>6. /\ mapPool' \in [Thread -> BOOLEAN] /\ mapPool'[t] /\ taken' \in [Thread -> Int]
        /\ \A u \in Thread \ {t} : mapPool'[u] = mapPool[u]
    BY <1>1, <1>3 DEF Types
  <1>7. /\ stack'[t] = rest /\ stack' \in [Thread -> Seq(Label)]
        /\ \A u \in Thread \ {t} : stack'[u] = stack[u]
    BY <1>1, <1>2, <1>3, Returns
  <1>8. ReserverReady /\ gbGlobalCntx = "done" /\ ~Torn
    BY <1>2, <1>4, <1>5, ServedReady DEF Stands, Whole
  <1>9. Whole(t)' /\ (First(t) => First(t)') /\ mapPool'[t]
    BY <1>3, <1>5, <1>6 DEF Whole, Single, First
  <1>10. dtor[t] # "unknown" /\ t \notin settled
    BY <1>1, <1>2 DEF ThreadInv, Known, Stands, Top, Ending, Closing
  <1>11. ThreadInv(t)' /\ ~Top(t, {"heap", "segment"})'
         /\ (Top(t, Serving \cup Building \cup Making)' => Top(t, Serving \cup Building \cup Making))
    <2>1. CASE stack[t] \in Outer
      <3>1. rest = <<>>
        BY <1>2, <1>5, <2>1, WaitingStack DEF Stands
      <3> QED BY <1>3, <1>4, <1>7, <1>9, <1>10, <3>1
            DEF ThreadInv, Idle, Constructing, Served, Destructing, Known, Top
    <2>2. CASE stack[t] \in Inner
      <3>1. PICK outer \in Outer : rest = On("new", outer)
        BY <1>2, <1>5, <2>2, WaitingStack DEF Stands
      <3>2. "new" \in Label /\ outer \in Seq(Label) /\ outer \in Waiting
        BY WaitingStack DEF Label, Making, Waiting
      <3>3. Stands(t, "new", outer)'
        BY <1>7, <3>1, <3>2, OnTop DEF Stands
      <3> QED BY <1>3, <1>4, <1>5, <1>9, <1>10, <2>2, <3>2, <3>3
            DEF ThreadInv, Idle, Constructing, Served, Destructing, Known, Stands, Top, Rest,
                Making, Building, Serving, Ending, Closing
    <2> QED BY <1>5, <2>1, <2>2 DEF Waiting
  <1>12. \A u \in Thread \ {t} : Alike(u)
    BY <1>3, <1>6, <1>7 DEF Alike
  <1>13. GlobalInv'
    <2>1. UNCHANGED global /\ life' = life
      BY <1>3
    <2> QED BY <1>1, <1>4, <1>8, <1>11, <1>12, <2>1, GlobalStill
  <1>14. Types' /\ Ready'
    BY <1>1, <1>3, <1>5, <1>6, <1>7, <1>8 DEF Types, Ready, global, Uses, LocalReady, Whole
  <1> QED BY <1>2, <1>3, <1>11, <1>12, <1>13, <1>14, StepWithin DEF Stands

LEMMA AllocAnyStep ==
  ASSUME ContextInv, NEW t \in Thread, AllocAny(t)
  PROVE  ContextInv'
  <1>1. Types /\ GlobalInv /\ Ready /\ ThreadInv(t) /\ Living(t)
    BY DEF ContextInv
  <1>2. PICK rest \in Seq(Label) : Stands(t, "any", rest)
    BY <1>1, InsideStands DEF AllocAny
  <1>3. /\ UNCHANGED <<global, gpLocalCntx, gvLocalCntx, mapRealm, mapPool, doubled,
                       dtor, life, settled>>
        /\ any' = [any EXCEPT ![t] = @ + 1]
        /\ cached' = [cached EXCEPT ![t] = IF @ > 0 THEN @ - 1 ELSE 0]
        /\ taken' = [taken EXCEPT ![t] = IF cached[t] > 0 THEN @ - 1 ELSE @]
        /\ Goto(t, <<>>) /\ Uses(LocalReady(t), "local")
    BY DEF AllocAny
  <1>4. Top(t, Serving \cup Building \cup Making) /\ ~Top(t, {"heap", "segment"})
        /\ ~Top(t, {"heapDestruct"})
    BY <1>2 DEF Top, Stands, Serving
  <1>5. stack[t] \in Waiting /\ Whole(t)
    BY <1>1, <1>2 DEF ThreadInv, Served, Stands, Top, Serving
  <1>6. /\ any' \in [Thread -> Nat] /\ cached' \in [Thread -> Nat] /\ taken' \in [Thread -> Int]
        /\ \A u \in Thread \ {t} : cached'[u] = cached[u]
    BY <1>1, <1>3 DEF Types
  <1>7. /\ stack'[t] = rest /\ stack' \in [Thread -> Seq(Label)]
        /\ \A u \in Thread \ {t} : stack'[u] = stack[u]
    BY <1>1, <1>2, <1>3, Returns
  <1>8. ReserverReady /\ gbGlobalCntx = "done" /\ ~Torn
    BY <1>2, <1>4, <1>5, ServedReady DEF Stands, Whole
  <1>9. Whole(t)'
    BY <1>3, <1>5 DEF Whole
  <1>10. dtor[t] # "unknown" /\ t \notin settled
    BY <1>1, <1>2 DEF ThreadInv, Known, Stands, Top, Ending, Closing
  <1>11. rest = <<>>
    BY <1>2, <1>5, WaitingStack DEF Stands, Waiting
  <1>12. ThreadInv(t)' /\ ~Top(t, {"heap", "segment"})'
         /\ (Top(t, Serving \cup Building \cup Making)' => Top(t, Serving \cup Building \cup Making))
    BY <1>3, <1>4, <1>7, <1>9, <1>10, <1>11
       DEF ThreadInv, Idle, Constructing, Served, Destructing, Known, Top
  <1>13. \A u \in Thread \ {t} : Alike(u)
    BY <1>3, <1>6, <1>7 DEF Alike
  <1>14. GlobalInv'
    <2>1. UNCHANGED global /\ life' = life
      BY <1>3
    <2> QED BY <1>1, <1>4, <1>8, <1>12, <1>13, <2>1, GlobalStill
  <1>15. Types' /\ Ready'
    BY <1>1, <1>3, <1>5, <1>6, <1>7, <1>8 DEF Types, Ready, global, Uses, LocalReady, Whole
  <1> QED BY <1>2, <1>3, <1>12, <1>13, <1>14, <1>15, StepWithin DEF Stands

LEMMA FreeOwnStep ==
  ASSUME ContextInv, NEW t \in Thread, FreeOwn(t)
  PROVE  ContextInv'
  <1>1. Types /\ GlobalInv /\ Ready /\ ThreadInv(t) /\ Living(t)
    BY DEF ContextInv
  <1>2. PICK rest \in Seq(Label) : Stands(t, "free", rest)
    BY <1>1, InsideStands DEF FreeOwn
  <1>3. /\ UNCHANGED <<global, gpLocalCntx, gvLocalCntx, mapRealm, mapPool, doubled,
                       dtor, any, life, settled>>
        /\ cached' = [cached EXCEPT ![t] = @ + 1]
        /\ taken' = [taken EXCEPT ![t] = @ + 1]
        /\ Goto(t, <<>>) /\ Uses(LocalReady(t), "local")
    BY DEF FreeOwn
  <1>4. Top(t, Serving \cup Building \cup Making) /\ ~Top(t, {"heap", "segment"})
        /\ ~Top(t, {"heapDestruct"})
    BY <1>2 DEF Top, Stands, Serving
  <1>5. stack[t] \in Waiting /\ Whole(t)
    BY <1>1, <1>2 DEF ThreadInv, Served, Stands, Top, Serving
  <1>6. /\ cached' \in [Thread -> Nat] /\ taken' \in [Thread -> Int]
        /\ \A u \in Thread \ {t} : cached'[u] = cached[u]
    BY <1>1, <1>3 DEF Types
  <1>7. /\ stack'[t] = rest /\ stack' \in [Thread -> Seq(Label)]
        /\ \A u \in Thread \ {t} : stack'[u] = stack[u]
    BY <1>1, <1>2, <1>3, Returns
  <1>8. ReserverReady /\ gbGlobalCntx = "done" /\ ~Torn
    BY <1>2, <1>4, <1>5, ServedReady DEF Stands, Whole
  <1>9. Whole(t)'
    BY <1>3, <1>5 DEF Whole
  <1>10. dtor[t] # "unknown" /\ t \notin settled
    BY <1>1, <1>2 DEF ThreadInv, Known, Stands, Top, Ending, Closing
  <1>11. rest = <<>>
    BY <1>2, <1>5, WaitingStack DEF Stands, Waiting
  <1>12. ThreadInv(t)' /\ ~Top(t, {"heap", "segment"})'
         /\ (Top(t, Serving \cup Building \cup Making)' => Top(t, Serving \cup Building \cup Making))
    BY <1>3, <1>4, <1>7, <1>9, <1>10, <1>11
       DEF ThreadInv, Idle, Constructing, Served, Destructing, Known, Top
  <1>13. \A u \in Thread \ {t} : Alike(u)
    BY <1>3, <1>6, <1>7 DEF Alike
  <1>14. GlobalInv'
    <2>1. UNCHANGED global /\ life' = life
      BY <1>3
    <2> QED BY <1>1, <1>4, <1>8, <1>12, <1>13, <2>1, GlobalStill
  <1>15. Types' /\ Ready'
    BY <1>1, <1>3, <1>5, <1>6, <1>7, <1>8 DEF Types, Ready, global, Uses, LocalReady, Whole
  <1> QED BY <1>2, <1>3, <1>12, <1>13, <1>14, <1>15, StepWithin DEF Stands

(* A call begins where a thread is inside of nothing.                      *)
LEMMA CallStepOf ==
  ASSUME ContextInv, NEW t \in Thread, Call(t)
  PROVE  ContextInv'
  <1>1. Types /\ GlobalInv /\ Ready /\ ThreadInv(t) /\ Living(t)
    BY DEF ContextInv
  <1>2. /\ UNCHANGED <<global, gpLocalCntx, gvLocalCntx, mapRealm, mapPool, cached, taken, doubled,
                       dtor, life, unready>>
        /\ settled' = settled \ {t}
        /\ life[t] \in {"running", "late"} /\ stack[t] = <<>>
    BY DEF Call, MayCall, context
  <1>3. PICK label \in Serving : stack' = [stack EXCEPT ![t] = <<"ptr", label>>]
    BY DEF Call, Serving
  <1>4. any' \in [Thread -> Nat] /\ (\A u \in Thread : any[u] = 0 => any'[u] = 0)
    <2>1. any' = any \/ (any[t] > 0 /\ any' = [any EXCEPT ![t] = @ - 1])
      BY DEF Call
    <2>2. any \in [Thread -> Nat]
      BY <1>1 DEF Types
    <2>3. any[t] > 0 => any[t] - 1 \in Nat /\ any[t] # 0
      BY <2>2
    <2> QED BY <2>1, <2>2, <2>3
  <1> DEFINE outer == On(label, <<>>)
  <1>5. outer \in Outer /\ outer \in Waiting /\ outer \notin Inner /\ outer \in Seq(Label)
    <2>1. outer \in Outer
      BY DEF Outer
    <2> QED BY <2>1, WaitingStack DEF Waiting
  <1>6. stack' = [stack EXCEPT ![t] = On("ptr", outer)]
    <2>1. "ptr" \in Label /\ label \in Label /\ <<>> \in Seq(Label)
      BY DEF Label, Making
    <2>2. <<"ptr", label>> = On("ptr", On(label, <<>>))
      BY <2>1, OnMore
    <2> QED BY <1>3, <2>2
  <1> HIDE DEF outer
  <1>7. /\ Stands(t, "ptr", outer)' /\ stack' \in [Thread -> Seq(Label)]
        /\ \A u \in Thread \ {t} : stack'[u] = stack[u]
    BY <1>1, <1>5, <1>6, Moved DEF Label, Making
  <1>8. None(t) \/ Whole(t)
    BY <1>1, <1>2 DEF ThreadInv, Idle
  <1>9. None(t)' \/ Whole(t)'
    BY <1>2, <1>8 DEF None, Bare, Whole
  <1>10. (dtor[t] = "unknown" => None(t) /\ t \notin doubled)
    BY <1>1 DEF ThreadInv, Known
  <1>11. ThreadInv(t)'
    BY <1>2, <1>5, <1>7, <1>9, <1>10
       DEF ThreadInv, Idle, Constructing, Served, Destructing, Known, Stands, Top, Rest,
           None, Bare, Named, Making, Building, Serving, Ending, Closing
  <1>12. \A u \in Thread \ {t} : Alike(u)
    BY <1>2, <1>7 DEF Alike
  <1>13. GlobalInv'
    <2>1. t = Main => ~Torn
      BY <1>2 DEF Torn
    <2>2. gbGlobalCntx = "done" \/ (~gpLocalCntx'[t] /\ mapRealm'[t] = 0 /\ \A u \in Thread : any'[u] = 0)
      BY <1>1, <1>2, <1>4 DEF GlobalInv
    <2>3. UNCHANGED global /\ life' = life
      BY <1>2
    <2>4. ~Top(t, {"heap", "segment"})' /\ ~Top(t, {"heap", "segment"})
      BY <1>2, <1>7 DEF Top, Stands
    <2> QED BY <1>1, <1>12, <2>1, <2>2, <2>3, <2>4, GlobalStill
  <1>14. Types' /\ Ready'
    BY <1>1, <1>2, <1>4, <1>7 DEF Types, Ready, global
  <1>15. Living(t)'
    BY <1>1, <1>2, <1>7 DEF Living, Stands, Top
  <1>16. \A u \in Thread : Living(u)'
    BY <1>2, <1>12, <1>15, LivingStep DEF ContextInv
  <1>17. \A u \in Thread : ThreadInv(u)'
    BY <1>11, <1>12, ThreadsStep DEF ContextInv
  <1> QED BY <1>13, <1>14, <1>16, <1>17 DEF ContextInv

LEMMA FreeForeignStep ==
  ASSUME ContextInv, NEW t \in Thread, NEW u \in Thread, FreeForeign(t, u)
  PROVE  ContextInv'
  <1>1. Types /\ GlobalInv /\ Ready /\ Living(u)
    BY DEF ContextInv
  <1>2. /\ UNCHANGED <<global, gpLocalCntx, gvLocalCntx, mapRealm, mapPool, cached, taken, doubled,
                       dtor, life, stack, settled>>
        /\ life[u] \in {"running", "late"} /\ any[t] > 0
        /\ any' = [any EXCEPT ![t] = @ - 1] /\ Uses(ReserverReady, "reserver")
    BY DEF FreeForeign, MayCall, context
  <1>3. any' \in [Thread -> Nat]
    BY <1>1, <1>2 DEF Types
  <1>4. gbGlobalCntx = "done"
    BY <1>1, <1>2 DEF GlobalInv, Types
  <1>5. ~Torn
    BY <1>1, <1>2 DEF Torn, Living
  <1>6. ReserverReady
    BY <1>1, <1>4, <1>5 DEF GlobalInv, Torn, Built, ReserverReady
  <1>7. \A v \in Thread : Alike(v)
    BY <1>2 DEF Alike
  <1>8. \A v \in Thread : ThreadInv(v)'
    BY <1>7, AlikeInv DEF ContextInv
  <1>9. \A v \in Thread : Living(v)'
    BY <1>2 DEF ContextInv, Living, Top
  <1>10. GlobalInv'
    BY <1>1, <1>2, <1>4 DEF GlobalInv, Top, Built, global
  <1>11. Types' /\ Ready'
    BY <1>1, <1>2, <1>3, <1>6 DEF Types, Ready, Uses, global
  <1> QED BY <1>8, <1>9, <1>10, <1>11 DEF ContextInv

-----------------------------------------------------------------------------
(* The destructor of a context.                                            *)
LEMMA DestructLeaves ==
  ASSUME ContextInv, NEW t \in Thread, NEW label \in Ending, NEW rest \in Seq(Label),
         Stands(t, label, rest)
  PROVE  /\ rest = <<>> \/ rest = On("exit", <<>>)
         /\ rest = <<>> => life[t] = "late"
         /\ rest # <<>> => life[t] = "exit"
         /\ rest # <<>> => Head(rest) = "exit" /\ Tail(rest) = <<>>
         /\ t = Main => ~Torn
         /\ ~Top(t, {"heap", "segment"}) /\ ~Top(t, {"heapDestruct"})
         /\ ~Top(t, Serving \cup Building \cup Making)
  <1>1. Top(t, Ending) /\ Rest(t) = rest
    BY DEF Top, Stands, Rest
  <1>2. \/ rest = <<>> /\ life[t] = "late"
        \/ rest = On("exit", <<>>) /\ life[t] = "exit"
    BY <1>1 DEF ContextInv, ThreadInv, Destructing
  <1>3. "exit" \in Label /\ <<>> \in Seq(Label)
    BY DEF Label, Closing
  <1>4. /\ On("exit", <<>>) # <<>> /\ Head(On("exit", <<>>)) = "exit"
        /\ Tail(On("exit", <<>>)) = <<>>
    BY <1>3, OnTop
  <1>5. t = Main => ~Torn
    BY DEF Torn, Stands, Top, Ending
  <1>6. /\ ~Top(t, {"heap", "segment"}) /\ ~Top(t, {"heapDestruct"})
        /\ ~Top(t, Serving \cup Building \cup Making)
    BY DEF Top, Stands, Ending, Serving, Building, Making
  <1> QED BY <1>2, <1>4, <1>5, <1>6

LEMMA DestructStepOf ==
  ASSUME ContextInv, NEW t \in Thread, Destruct(t)
  PROVE  ContextInv'
  <1>1. Types /\ GlobalInv /\ Ready /\ ThreadInv(t) /\ Living(t)
    BY DEF ContextInv
  <1>2. PICK rest \in Seq(Label) : Stands(t, "~", rest)
    BY <1>1, InsideStands DEF Destruct
  <1>3. UNCHANGED <<global, gpLocalCntx, mapRealm, mapPool, cached, taken, doubled,
                    dtor, any, life, settled, unready>>
    BY DEF Destruct
  <1>4. /\ rest = <<>> \/ rest = On("exit", <<>>)
        /\ rest = <<>> => life[t] = "late"
        /\ rest # <<>> => life[t] = "exit"
        /\ rest # <<>> => Head(rest) = "exit" /\ Tail(rest) = <<>>
        /\ t = Main => ~Torn
        /\ ~Top(t, {"heap", "segment"}) /\ ~Top(t, Serving \cup Building \cup Making)
    BY <1>2, DestructLeaves DEF Ending
  <1>5. None(t) \/ Whole(t)
    BY <1>1, <1>2 DEF ThreadInv, Destructing, Stands, Top
  <1>6. (dtor[t] # "unknown")
    BY <1>1, <1>2 DEF ThreadInv, Known, Stands, Top
  <1>7. /\ gvLocalCntx' \in [Thread -> Nat] /\ stack' \in [Thread -> Seq(Label)]
        /\ \A u \in Thread \ {t} : stack'[u] = stack[u] /\ gvLocalCntx'[u] = gvLocalCntx[u]
        /\ ThreadInv(t)' /\ ~Top(t, {"heap", "segment"})' /\ ~Top(t, Serving \cup Building \cup Making)'
    <2>1. CASE ~gpLocalCntx[t] /\ Goto(t, <<>>) /\ UNCHANGED gvLocalCntx
      <3>1. None(t)'
        BY <1>3, <1>5, <2>1 DEF None, Bare, Whole
      <3>2. /\ stack'[t] = rest /\ stack' \in [Thread -> Seq(Label)]
            /\ \A u \in Thread \ {t} : stack'[u] = stack[u]
        BY <1>1, <1>2, <2>1, Returns
      <3> QED BY <1>1, <1>3, <1>4, <1>6, <2>1, <3>1, <3>2
            DEF Types, ThreadInv, Idle, Constructing, Served, Destructing, Known, Top, Rest,
                Making, Building, Serving, Ending, Closing
    <2>2. CASE /\ gpLocalCntx[t] /\ gvLocalCntx' = [gvLocalCntx EXCEPT ![t] = Counted(@)]
               /\ Goto(t, AfterCount(gvLocalCntx'[t]))
      <3>1. Whole(t)
        BY <1>5, <2>2 DEF None, Bare
      <3>2. /\ gvLocalCntx[t] = 1 => Counted(gvLocalCntx[t]) = 0
            /\ gvLocalCntx[t] = 2 => Counted(gvLocalCntx[t]) = 1
        BY DEF Counted
      <3>3. gvLocalCntx[t] \in {1, 2} /\ Counted(gvLocalCntx[t]) \in {0, 1}
        BY <3>1, <3>2 DEF Whole
      <3>4. /\ gvLocalCntx' \in [Thread -> Nat]
            /\ \A u \in Thread \ {t} : gvLocalCntx'[u] = gvLocalCntx[u]
            /\ gvLocalCntx'[t] \in {0, 1}
        BY <1>1, <2>2, <3>3 DEF Types
      <3>5. PICK label : /\ label \in Label /\ Goto(t, <<label>>)
                         /\ \/ label = "clear" /\ gvLocalCntx'[t] = 0
                            \/ label = "~" /\ gvLocalCntx'[t] = 1
        <4>1. "clear" \in Label /\ "~" \in Label
          BY DEF Label, Ending
        <4> QED BY <2>2, <3>4, <4>1 DEF AfterCount
      <3>6. /\ Stands(t, label, rest)' /\ stack' \in [Thread -> Seq(Label)]
            /\ \A u \in Thread \ {t} : stack'[u] = stack[u]
        BY <1>1, <1>2, <3>5, Enters
      <3>7. \/ label = "clear" /\ gpLocalCntx'[t] /\ gvLocalCntx'[t] = 0 /\ mapRealm'[t] = cnRealm
            \/ label = "~" /\ Whole(t)'
        BY <1>3, <3>1, <3>5 DEF Whole
      <3>8. ~Top(t, {"heap", "segment"})' /\ ~Top(t, Serving \cup Building \cup Making)'
        BY <3>6, <3>7 DEF Top, Stands, Serving, Building, Making
      <3>9. ThreadInv(t)'
        BY <1>3, <1>4, <1>6, <3>6, <3>7
           DEF ThreadInv, Idle, Constructing, Served, Destructing, Known, Stands, Top, Rest,
               Making, Building, Serving, Ending, Closing
      <3> QED BY <3>4, <3>6, <3>8, <3>9
    <2> QED BY <2>1, <2>2 DEF Destruct
  <1>8. \A u \in Thread \ {t} : Alike(u)
    BY <1>3, <1>7 DEF Alike
  <1>9. GlobalInv'
    <2>1. gbGlobalCntx = "done" \/ (~gpLocalCntx'[t] /\ mapRealm'[t] = 0 /\ \A u \in Thread : any'[u] = 0)
      BY <1>1, <1>3 DEF GlobalInv
    <2>2. UNCHANGED global /\ life' = life
      BY <1>3
    <2> QED BY <1>1, <1>4, <1>7, <1>8, <2>1, <2>2, GlobalStill
  <1>10. Types' /\ Ready'
    BY <1>1, <1>3, <1>7 DEF Types, Ready, global
  <1> QED BY <1>2, <1>3, <1>7, <1>8, <1>9, <1>10, StepWithin DEF Stands

LEMMA ClearPoolStep ==
  ASSUME ContextInv, NEW t \in Thread, ClearPool(t)
  PROVE  ContextInv'
  <1>1. Types /\ GlobalInv /\ Ready /\ ThreadInv(t) /\ Living(t)
    BY DEF ContextInv
  <1>2. PICK rest \in Seq(Label) : Stands(t, "clear", rest)
    BY <1>1, InsideStands DEF ClearPool
  <1>3. /\ UNCHANGED <<global, gpLocalCntx, gvLocalCntx, mapRealm, doubled,
                       dtor, any, life, settled>>
        /\ mapPool' = [mapPool EXCEPT ![t] = FALSE]
        /\ Goto(t, <<"give">>)
        /\ \/ /\ Uses(LocalReady(t), "local") /\ cached' = [cached EXCEPT ![t] = @ + 1]
              /\ UNCHANGED taken
           \/ /\ taken' = [taken EXCEPT ![t] = IF mapPool[t] THEN @ - 1 ELSE @]
              /\ UNCHANGED <<cached, unready>>
    BY DEF ClearPool
  <1>4. /\ rest = <<>> \/ rest = On("exit", <<>>)
        /\ rest = <<>> => life[t] = "late"
        /\ rest # <<>> => life[t] = "exit"
        /\ t = Main => ~Torn
        /\ ~Top(t, {"heap", "segment"}) /\ ~Top(t, {"heapDestruct"})
    BY <1>2, DestructLeaves DEF Ending
  <1>5. gpLocalCntx[t] /\ gvLocalCntx[t] = 0 /\ mapRealm[t] = cnRealm
    BY <1>1, <1>2 DEF ThreadInv, Destructing, Stands, Top
  <1>6. (dtor[t] # "unknown")
    BY <1>1, <1>2 DEF ThreadInv, Known, Stands, Top
  <1>7. /\ mapPool' \in [Thread -> BOOLEAN] /\ ~mapPool'[t] /\ cached' \in [Thread -> Nat]
        /\ taken' \in [Thread -> Int]
        /\ \A u \in Thread \ {t} : mapPool'[u] = mapPool[u] /\ cached'[u] = cached[u]
    BY <1>1, <1>3 DEF Types
  <1>8. /\ Stands(t, "give", rest)' /\ stack' \in [Thread -> Seq(Label)]
        /\ \A u \in Thread \ {t} : stack'[u] = stack[u]
    BY <1>1, <1>2, <1>3, Enters DEF Label, Ending
  <1>9. ThreadInv(t)'
    BY <1>3, <1>4, <1>5, <1>6, <1>7, <1>8
       DEF ThreadInv, Idle, Constructing, Served, Destructing, Known, Stands, Top, Rest,
           Making, Building, Serving, Ending, Closing
  <1>10. \A u \in Thread \ {t} : Alike(u)
    BY <1>3, <1>7, <1>8 DEF Alike
  <1>11. ReserverReady /\ gbGlobalCntx = "done"
    BY <1>2, <1>4, <1>5, ServedReady DEF Stands
  <1>12. ~Top(t, {"heap", "segment"})' /\ ~Top(t, Serving \cup Building \cup Making)'
    BY <1>8 DEF Top, Stands, Serving, Building, Making
  <1>13. GlobalInv'
    <2>1. UNCHANGED global /\ life' = life
      BY <1>3
    <2> QED BY <1>1, <1>4, <1>10, <1>11, <1>12, <2>1, GlobalStill
  <1>14. Types' /\ Ready'
    BY <1>1, <1>3, <1>5, <1>7, <1>8, <1>11 DEF Types, Ready, Uses, LocalReady, global
  <1> QED BY <1>2, <1>3, <1>9, <1>10, <1>12, <1>13, <1>14, StepWithin DEF Stands

LEMMA GiveStep ==
  ASSUME ContextInv, NEW t \in Thread, Give(t)
  PROVE  ContextInv'
  <1>1. Types /\ GlobalInv /\ Ready /\ ThreadInv(t) /\ Living(t)
    BY DEF ContextInv
  <1>2. PICK rest \in Seq(Label) : Stands(t, "give", rest)
    BY <1>1, InsideStands DEF Give
  <1>3. /\ UNCHANGED <<global, gvLocalCntx, mapPool, doubled, dtor, any, life, settled>>
        /\ Uses(ReserverReady, "reserver")
        /\ taken' = [taken EXCEPT ![t] = @ - mapRealm[t] - cached[t]]
        /\ mapRealm' = [mapRealm EXCEPT ![t] = 0]
        /\ cached' = [cached EXCEPT ![t] = 0]
        /\ gpLocalCntx' = [gpLocalCntx EXCEPT ![t] = FALSE]
        /\ Goto(t, <<>>)
    BY DEF Give
  <1>4. /\ rest = <<>> \/ rest = On("exit", <<>>)
        /\ rest = <<>> => life[t] = "late"
        /\ rest # <<>> => life[t] = "exit"
        /\ rest # <<>> => Head(rest) = "exit" /\ Tail(rest) = <<>>
        /\ t = Main => ~Torn
        /\ ~Top(t, {"heap", "segment"}) /\ ~Top(t, {"heapDestruct"})
    BY <1>2, DestructLeaves DEF Ending
  <1>5. gpLocalCntx[t] /\ gvLocalCntx[t] = 0 /\ ~mapPool[t]
    BY <1>1, <1>2 DEF ThreadInv, Destructing, Stands, Top
  <1>6. (dtor[t] # "unknown")
    BY <1>1, <1>2 DEF ThreadInv, Known, Stands, Top
  <1>7. /\ mapRealm' \in [Thread -> Nat] /\ cached' \in [Thread -> Nat]
        /\ gpLocalCntx' \in [Thread -> BOOLEAN] /\ taken' \in [Thread -> Int]
        /\ mapRealm'[t] = 0 /\ cached'[t] = 0 /\ ~gpLocalCntx'[t]
        /\ \A u \in Thread \ {t} : /\ mapRealm'[u] = mapRealm[u] /\ cached'[u] = cached[u]
                                   /\ gpLocalCntx'[u] = gpLocalCntx[u]
    BY <1>1, <1>3 DEF Types
  <1>8. /\ stack'[t] = rest /\ stack' \in [Thread -> Seq(Label)]
        /\ \A u \in Thread \ {t} : stack'[u] = stack[u]
    BY <1>1, <1>2, <1>3, Returns
  <1>9. None(t)'
    BY <1>3, <1>5, <1>7 DEF None, Bare
  <1>10. ThreadInv(t)' /\ ~Top(t, {"heap", "segment"})' /\ ~Top(t, Serving \cup Building \cup Making)'
    BY <1>3, <1>4, <1>6, <1>8, <1>9
       DEF ThreadInv, Idle, Constructing, Served, Destructing, Known, Top, Rest,
           Making, Building, Serving, Ending, Closing
  <1>11. \A u \in Thread \ {t} : Alike(u)
    BY <1>3, <1>7, <1>8 DEF Alike
  <1>12. ReserverReady /\ gbGlobalCntx = "done"
    BY <1>2, <1>4, <1>5, ServedReady DEF Stands
  <1>13. GlobalInv'
    <2>1. UNCHANGED global /\ life' = life
      BY <1>3
    <2> QED BY <1>1, <1>4, <1>10, <1>11, <1>12, <2>1, GlobalStill
  <1>14. Types' /\ Ready'
    BY <1>1, <1>3, <1>7, <1>8, <1>12 DEF Types, Ready, Uses, global
  <1> QED BY <1>2, <1>3, <1>10, <1>11, <1>13, <1>14, StepWithin DEF Stands

-----------------------------------------------------------------------------
(* Threads begin and end.                                                  *)
LEMMA StartStep ==
  ASSUME ContextInv, NEW t \in Thread, Start(t)
  PROVE  ContextInv'
  <1>1. Types /\ GlobalInv /\ Ready /\ ThreadInv(t) /\ Living(t)
    BY DEF ContextInv
  <1>2. /\ UNCHANGED <<global, gpLocalCntx, gvLocalCntx, mapRealm, mapPool, cached, taken, doubled,
                       dtor, any, stack, settled, unready>>
        /\ life[t] = "unborn" /\ life' = [life EXCEPT ![t] = "running"]
    BY DEF Start, context
  <1>3. PICK u \in Thread : life[u] = "running" /\ gpLocalCntx[u]
    BY DEF Start
  <1>4. t # Main /\ life[Main] = "running" /\ gbGlobalCntx = "done"
    BY <1>1, <1>2, <1>3 DEF GlobalInv, ContextInv, Living
  <1>5. /\ life' \in [Thread -> {"unborn", "running", "late", "ended", "exit"}]
        /\ life'[t] = "running" /\ \A v \in Thread \ {t} : life'[v] = life[v]
    BY <1>1, <1>2 DEF Types
  <1>6. stack[t] = <<>>
    BY <1>1, <1>2 DEF Living
  <1>7. Main \in Thread /\ life'[Main] = life[Main]
    BY <1>4, <1>5, ContextAssumption
  <1>8. \A v \in Thread \ {t} : Alike(v)
    BY <1>2, <1>5 DEF Alike
  <1>9. ThreadInv(t)'
    BY <1>1, <1>2, <1>6
       DEF ThreadInv, Idle, Constructing, Served, Destructing, Known, Top, None, Bare, Whole
  <1>10. \A v \in Thread : ThreadInv(v)'
    BY <1>8, <1>9, ThreadsStep DEF ContextInv
  <1>11. Living(t)'
    BY <1>1, <1>2, <1>4, <1>5, <1>6, <1>7 DEF Living, Top
  <1>12. ASSUME NEW v \in Thread, v # t PROVE Living(v)'
    <2>1. Living(v) /\ life'[v] = life[v]
      BY <1>5, <1>12 DEF ContextInv
    <2> QED BY <1>2, <1>7, <2>1 DEF Living, Top
  <1>13. GlobalInv'
    BY <1>1, <1>2, <1>4, <1>7 DEF GlobalInv, Top, Built, global
  <1>14. Types' /\ Ready'
    BY <1>1, <1>2, <1>5 DEF Types, Ready, global
  <1> QED BY <1>10, <1>11, <1>12, <1>13, <1>14 DEF ContextInv

LEMMA ReturnStep ==
  ASSUME ContextInv, NEW t \in Thread, Return(t)
  PROVE  ContextInv'
  <1>1. Types /\ GlobalInv /\ Ready /\ ThreadInv(t) /\ Living(t)
    BY DEF ContextInv
  <1>2. /\ UNCHANGED <<global, gpLocalCntx, gvLocalCntx, mapRealm, mapPool, cached, taken, doubled,
                       any, unready>>
        /\ life[t] = "running" /\ stack[t] = <<>>
        /\ t = Main => \A u \in Thread \ {Main} : life[u] \in {"unborn", "ended"}
        /\ life' = [life EXCEPT ![t] = "late"] /\ dtor' = [dtor EXCEPT ![t] = "run"]
        /\ stack' = [stack EXCEPT ![t] = IF dtor[t] = "registered" THEN <<"~">> ELSE <<>>]
        /\ settled' = settled \cup {t}
    BY DEF Return, context
  <1>3. /\ life' \in [Thread -> {"unborn", "running", "late", "ended", "exit"}]
        /\ life'[t] = "late" /\ \A v \in Thread \ {t} : life'[v] = life[v]
        /\ dtor' \in [Thread -> {"unknown", "registered", "run"}]
        /\ dtor'[t] = "run" /\ \A v \in Thread \ {t} : dtor'[v] = dtor[v]
    BY <1>1, <1>2 DEF Types
  <1>4. /\ stack' \in [Thread -> Seq(Label)] /\ \A v \in Thread \ {t} : stack'[v] = stack[v]
        /\ \/ dtor[t] = "registered" /\ Stands(t, "~", <<>>)'
           \/ dtor[t] # "registered" /\ stack'[t] = <<>>
    <2>1. CASE dtor[t] = "registered"
      <3>1. "~" \in Label /\ <<>> \in Seq(Label)
        BY DEF Label, Ending
      <3>2. <<"~">> = On("~", <<>>)
        BY <3>1, OnMore
      <3>3. stack' = [stack EXCEPT ![t] = On("~", <<>>)]
        BY <1>2, <2>1, <3>2
      <3> QED BY <1>1, <2>1, <3>1, <3>3, Moved
    <2>2. CASE dtor[t] # "registered"
      BY <1>1, <1>2, <2>2 DEF Types
    <2> QED BY <2>1, <2>2
  <1>5. (None(t) \/ Whole(t))
    BY <1>1, <1>2 DEF ThreadInv, Idle, Known
  <1>6. dtor[t] # "registered" => None(t)
    <2>1. dtor[t] # "run"
      BY <1>1, <1>2 DEF Living
    <2>2. dtor[t] \in {"unknown", "registered", "run"}
      BY <1>1 DEF Types
    <2> QED BY <1>1, <2>1, <2>2 DEF ThreadInv, Known
  <1>7. (None(t)' <=> None(t)) /\ (Whole(t)' <=> Whole(t))
    BY <1>2 DEF None, Bare, Whole
  <1>8. ThreadInv(t)' /\ ~Top(t, {"heap", "segment"})' /\ ~Top(t, Serving \cup Building \cup Making)'
    BY <1>2, <1>3, <1>4, <1>5, <1>6, <1>7
       DEF ThreadInv, Idle, Constructing, Served, Destructing, Known, Stands, Top, Rest,
           Making, Building, Serving, Ending, Closing
  <1>9. \A v \in Thread \ {t} : Alike(v)
    BY <1>2, <1>3, <1>4 DEF Alike
  <1>10. \A v \in Thread : ThreadInv(v)'
    BY <1>8, <1>9, ThreadsStep DEF ContextInv
  <1>11. Main \in Thread
    BY ContextAssumption
  <1>12. t # Main => life[Main] = "running" /\ life'[Main] = "running"
    BY <1>1, <1>2, <1>3, <1>11 DEF Living
  <1>13. Living(t)'
    BY <1>3, <1>8, <1>12 DEF Living
  <1>14. ASSUME NEW v \in Thread, v # t PROVE Living(v)'
    <2>1. Living(v) /\ Alike(v)
      BY <1>9, <1>14 DEF ContextInv
    <2>2. t = Main => life[v] \in {"unborn", "ended"}
      BY <1>2, <1>14
    <2> QED BY <1>12, <2>1, <2>2 DEF Living, Alike, Top
  <1>15. GlobalInv'
    <2>1. life'[Main] \in {"running", "late"} /\ life[Main] = "running"
      BY <1>2, <1>3, <1>12
    <2>2. gbGlobalCntx = "done" => Built
      BY <1>1, <2>1 DEF GlobalInv
    <2>3. gbGlobalCntx = "running" => t # Main
      BY <1>1, <1>2 DEF GlobalInv, Top
    <2>4. gbGlobalCntx # "done" => t = Main
      BY <1>1, <1>2 DEF GlobalInv
    <2>5. gbGlobalCntx # "running"
      BY <2>3, <2>4
    <2>6. \A v \in Thread : Top(v, {"heap", "segment"})' => Top(v, {"heap", "segment"})
      BY <1>8, <1>9 DEF Alike, Top
    <2>7. gbGlobalCntx # "done" => \A v \in Thread : v # Main => life'[v] = "unborn"
      BY <1>1, <1>3, <2>4 DEF GlobalInv
    <2> QED BY <1>1, <1>2, <1>11, <2>1, <2>2, <2>5, <2>6, <2>7 DEF GlobalInv, Built, global
  <1>16. Types' /\ Ready'
    BY <1>1, <1>2, <1>3, <1>4 DEF Types, Ready, global
  <1> QED BY <1>10, <1>13, <1>14, <1>15, <1>16 DEF ContextInv

LEMMA EndStep ==
  ASSUME ContextInv, NEW t \in Thread, End(t)
  PROVE  ContextInv'
  <1>1. Types /\ GlobalInv /\ Ready /\ ThreadInv(t) /\ Living(t)
    BY DEF ContextInv
  <1>2. /\ UNCHANGED <<global, gpLocalCntx, gvLocalCntx, mapRealm, mapPool, cached, taken, doubled,
                       dtor, any, stack, settled, unready>>
        /\ t # Main /\ life[t] = "late" /\ stack[t] = <<>>
        /\ life' = [life EXCEPT ![t] = "ended"]
    BY DEF End, context
  <1>3. /\ life' \in [Thread -> {"unborn", "running", "late", "ended", "exit"}]
        /\ life'[t] = "ended" /\ \A v \in Thread \ {t} : life'[v] = life[v]
    BY <1>1, <1>2 DEF Types
  <1>4. Main \in Thread /\ life'[Main] = life[Main]
    BY <1>2, <1>3, ContextAssumption
  <1>5. \A v \in Thread \ {t} : Alike(v)
    BY <1>2, <1>3 DEF Alike
  <1>6. ThreadInv(t)'
    BY <1>1, <1>2
       DEF ThreadInv, Idle, Constructing, Served, Destructing, Known, Top, None, Bare, Whole
  <1>7. \A v \in Thread : ThreadInv(v)'
    BY <1>5, <1>6, ThreadsStep DEF ContextInv
  <1>8. Living(t)'
    BY <1>2, <1>3 DEF Living, Top
  <1>9. ASSUME NEW v \in Thread, v # t PROVE Living(v)'
    <2>1. Living(v) /\ life'[v] = life[v]
      BY <1>3, <1>9 DEF ContextInv
    <2> QED BY <1>2, <1>4, <2>1 DEF Living, Top
  <1>10. GlobalInv'
    <2>1. gbGlobalCntx = "done"
      BY <1>1, <1>2 DEF GlobalInv
    <2> QED BY <1>1, <1>2, <1>4, <2>1 DEF GlobalInv, Top, Built, global
  <1>11. Types' /\ Ready'
    BY <1>1, <1>2, <1>3 DEF Types, Ready, global
  <1> QED BY <1>7, <1>8, <1>9, <1>10, <1>11 DEF ContextInv

(* When Main is past its destructors no other thread runs.                 *)
LEMMA ExitStep ==
  ASSUME ContextInv, Exit
  PROVE  ContextInv'
  <1>1. Main \in Thread
    BY ContextAssumption
  <1>2. Types /\ GlobalInv /\ Ready /\ ThreadInv(Main) /\ Living(Main)
    BY <1>1 DEF ContextInv
  <1>3. /\ UNCHANGED <<global, gpLocalCntx, gvLocalCntx, mapRealm, mapPool, cached, taken, doubled,
                       dtor, any, unready>>
        /\ life[Main] = "late" /\ stack[Main] = <<>>
        /\ life' = [life EXCEPT ![Main] = "exit"]
        /\ stack' = [stack EXCEPT ![Main] = LastDestruct \o <<"exit">>]
        /\ settled' = settled \cup {Main}
    BY DEF Exit, context
  <1>4. /\ life' \in [Thread -> {"unborn", "running", "late", "ended", "exit"}]
        /\ life'[Main] = "exit" /\ \A v \in Thread \ {Main} : life'[v] = life[v]
    BY <1>1, <1>2, <1>3 DEF Types
  <1>5. None(Main) \/ Whole(Main)
    BY <1>2, <1>3 DEF ThreadInv, Idle
  <1>6. /\ stack' \in [Thread -> Seq(Label)] /\ \A v \in Thread \ {Main} : stack'[v] = stack[v]
        /\ \/ Whole(Main) /\ Stands(Main, "~", On("exit", <<>>))'
           \/ None(Main) /\ Stands(Main, "exit", <<>>)'
    <2>1. "~" \in Label /\ "exit" \in Label /\ <<>> \in Seq(Label)
      BY DEF Label, Ending, Closing
    <2>2. <<"exit">> = On("exit", <<>>) /\ On("exit", <<>>) \in Seq(Label)
      BY <2>1, OnMore, OnTop
    <2>3. CASE gpLocalCntx[Main]
      <3>1. LastDestruct \o <<"exit">> = On("~", On("exit", <<>>))
        BY <2>2, <2>3 DEF LastDestruct, On
      <3>2. stack' = [stack EXCEPT ![Main] = On("~", On("exit", <<>>))]
        BY <1>3, <3>1
      <3>3. Whole(Main)
        BY <1>5, <2>3 DEF None, Bare
      <3> QED BY <1>1, <1>2, <2>1, <2>2, <3>2, <3>3, Moved
    <2>4. CASE ~gpLocalCntx[Main]
      <3>1. LastDestruct \o <<"exit">> = On("exit", <<>>)
        BY <2>1, <2>2, <2>4, OnMore DEF LastDestruct
      <3>2. stack' = [stack EXCEPT ![Main] = On("exit", <<>>)]
        BY <1>3, <3>1
      <3>3. None(Main)
        BY <1>5, <2>4 DEF Whole
      <3> QED BY <1>1, <1>2, <2>1, <2>2, <3>2, <3>3, Moved
    <2> QED BY <2>3, <2>4
  <1>7. dtor[Main] = "unknown" => None(Main) /\ Main \notin doubled
    BY <1>2 DEF ThreadInv, Known
  <1>8. dtor[Main] # "unknown"
    BY <1>1, <1>2, <1>3 DEF Living
  <1>9. (None(Main)' <=> None(Main)) /\ (Whole(Main)' <=> Whole(Main))
    BY <1>3 DEF None, Bare, Whole
  <1>10. ThreadInv(Main)' /\ ~Top(Main, {"heap", "segment", "heapDestruct"})'
         /\ ~Top(Main, Serving \cup Building \cup Making)' /\ stack'[Main] # <<>>
    BY <1>3, <1>4, <1>6, <1>7, <1>8, <1>9
       DEF ThreadInv, Idle, Constructing, Served, Destructing, Known, Stands, Top, Rest,
           Making, Building, Serving, Ending, Closing
  <1>11. \A v \in Thread \ {Main} : Alike(v)
    BY <1>3, <1>4, <1>6 DEF Alike
  <1>12. \A v \in Thread : ThreadInv(v)'
    BY <1>1, <1>10, <1>11, ThreadsStep DEF ContextInv
  <1>13. Living(Main)'
    BY <1>3, <1>4, <1>8, <1>10 DEF Living
  <1>14. ASSUME NEW v \in Thread, v # Main PROVE Living(v)'
    <2>1. Living(v) /\ Alike(v)
      BY <1>11, <1>14 DEF ContextInv
    <2> QED BY <1>3, <1>14, <2>1 DEF Living, Alike, Top
  <1>15. GlobalInv'
    <2>1. gbGlobalCntx = "done" => Built
      BY <1>2, <1>3 DEF GlobalInv
    <2>2. gbGlobalCntx # "running"
      BY <1>2, <1>3 DEF GlobalInv, Top
    <2>3. \A v \in Thread : Top(v, {"heap", "segment"})' => Top(v, {"heap", "segment"})
      BY <1>10, <1>11 DEF Alike, Top
    <2>4. gbGlobalCntx # "done" => \A v \in Thread : v # Main => life'[v] = "unborn"
      BY <1>2, <1>4 DEF GlobalInv
    <2> QED BY <1>1, <1>2, <1>3, <1>4, <2>1, <2>2, <2>3, <2>4 DEF GlobalInv, Built, global
  <1>16. Types' /\ Ready'
    BY <1>2, <1>3, <1>4, <1>6 DEF Types, Ready, global
  <1> QED BY <1>12, <1>13, <1>14, <1>15, <1>16 DEF ContextInv

LEMMA ReserverDestructStep ==
  ASSUME ContextInv, ReserverDestruct
  PROVE  ContextInv'
  <1>1. Main \in Thread
    BY ContextAssumption
  <1>2. Types /\ GlobalInv /\ Ready /\ ThreadInv(Main) /\ Living(Main)
    BY <1>1 DEF ContextInv
  <1>3. PICK rest \in Seq(Label) : Stands(Main, "exit", rest)
    BY <1>1, <1>2, InsideStands DEF ReserverDestruct
  <1>4. /\ UNCHANGED <<gbGlobalCntx, gpGlobalCntx, mHeap, gpLocalCntx, gvLocalCntx, mapRealm,
                       mapPool, cached, taken, doubled, dtor, any, life, settled>>
        /\ Uses(mHeap \/ mReserver = 0, "heap") /\ mReserver' = 0
        /\ Goto(Main, <<"heapDestruct">>)
    BY DEF ReserverDestruct, context
  <1>5. None(Main) /\ rest = <<>> /\ life[Main] = "exit"
    BY <1>2, <1>3 DEF ThreadInv, Destructing, Stands, Top, Rest, Closing
  <1>6. /\ Stands(Main, "heapDestruct", rest)' /\ stack' \in [Thread -> Seq(Label)]
        /\ \A u \in Thread \ {Main} : stack'[u] = stack[u]
    BY <1>1, <1>2, <1>3, <1>4, Enters DEF Label, Closing
  <1>7. dtor[Main] # "unknown"
    BY <1>2, <1>3 DEF ThreadInv, Known, Stands, Top
  <1>8. None(Main)'
    BY <1>4, <1>5 DEF None, Bare
  <1>9. ThreadInv(Main)' /\ ~Top(Main, {"heap", "segment"})'
        /\ ~Top(Main, Serving \cup Building \cup Making)' /\ Top(Main, {"heapDestruct"})'
    BY <1>4, <1>5, <1>6, <1>7, <1>8
       DEF ThreadInv, Idle, Constructing, Served, Destructing, Known, Stands, Top, Rest,
           Making, Building, Serving, Ending, Closing
  <1>10. \A v \in Thread \ {Main} : Alike(v)
    BY <1>4, <1>6 DEF Alike
  <1>11. gbGlobalCntx # "running"
    BY <1>2, <1>3 DEF GlobalInv, Stands, Top
  <1>12. mHeap \/ mReserver = 0
    <2>1. gbGlobalCntx = "done" => Built
      BY <1>1, <1>3, HasBuilt DEF Stands, Top
    <2>2. gbGlobalCntx \in {"never", "running", "done"}
      BY <1>2 DEF Types
    <2> QED BY <1>2, <1>11, <2>1, <2>2 DEF GlobalInv, Built
  <1>13. GlobalInv'
    <2>1. \A v \in Thread : Top(v, {"heap", "segment"})' => Top(v, {"heap", "segment"})
      BY <1>9, <1>10 DEF Alike, Top
    <2> QED BY <1>1, <1>2, <1>4, <1>5, <1>9, <1>11, <2>1 DEF GlobalInv
  <1>14. Types' /\ Ready'
    BY <1>2, <1>4, <1>6, <1>12 DEF Types, Ready, Uses
  <1>15. Top(Main, Serving \cup Building \cup Making)' => Top(Main, Serving \cup Building \cup Making)
    BY <1>9
  <1>16. life' = life /\ dtor'[Main] \in {dtor[Main], "registered"} /\ stack[Main] # <<>>
    BY <1>3, <1>4 DEF Stands
  <1> QED BY <1>1, <1>9, <1>10, <1>13, <1>14, <1>15, <1>16, StepWithin

LEMMA HeapDestructStep ==
  ASSUME ContextInv, HeapDestruct
  PROVE  ContextInv'
  <1>1. Main \in Thread
    BY ContextAssumption
  <1>2. Types /\ GlobalInv /\ Ready /\ ThreadInv(Main) /\ Living(Main)
    BY <1>1 DEF ContextInv
  <1>3. PICK rest \in Seq(Label) : Stands(Main, "heapDestruct", rest)
    BY <1>1, <1>2, InsideStands DEF HeapDestruct
  <1>4. /\ UNCHANGED <<gbGlobalCntx, mReserver, gpLocalCntx, gvLocalCntx, mapRealm,
                       mapPool, cached, taken, doubled, dtor, any, life, settled, unready>>
        /\ mHeap' = FALSE /\ gpGlobalCntx' = FALSE
        /\ Goto(Main, <<>>)
    BY DEF HeapDestruct, context
  <1>5. None(Main) /\ rest = <<>> /\ life[Main] = "exit"
    BY <1>2, <1>3 DEF ThreadInv, Destructing, Stands, Top, Rest, Closing
  <1>6. /\ stack'[Main] = <<>> /\ stack' \in [Thread -> Seq(Label)]
        /\ \A u \in Thread \ {Main} : stack'[u] = stack[u]
    BY <1>1, <1>2, <1>3, <1>4, <1>5, Returns
  <1>7. dtor[Main] # "unknown"
    BY <1>2, <1>3 DEF ThreadInv, Known, Stands, Top
  <1>8. None(Main)'
    BY <1>4, <1>5 DEF None, Bare
  <1>9. ThreadInv(Main)' /\ \A labels : ~Top(Main, labels)'
    BY <1>4, <1>5, <1>6, <1>7, <1>8
       DEF ThreadInv, Idle, Constructing, Served, Destructing, Known, Top
  <1>10. \A v \in Thread \ {Main} : Alike(v)
    BY <1>4, <1>6 DEF Alike
  <1>11. gbGlobalCntx # "running"
    BY <1>2, <1>3 DEF GlobalInv, Stands, Top
  <1>12. GlobalInv'
    <2>1. \A v \in Thread : Top(v, {"heap", "segment"})' => Top(v, {"heap", "segment"})
      BY <1>9, <1>10 DEF Alike, Top
    <2> QED BY <1>1, <1>2, <1>4, <1>5, <1>6, <1>9, <1>11, <2>1 DEF GlobalInv
  <1>13. Types' /\ Ready'
    BY <1>2, <1>4, <1>6 DEF Types, Ready
  <1>14. ~Top(Main, Serving \cup Building \cup Making)'
    BY <1>9
  <1>15. life' = life /\ dtor'[Main] \in {dtor[Main], "registered"} /\ stack[Main] # <<>>
    BY <1>3, <1>4 DEF Stands
  <1> QED BY <1>1, <1>9, <1>10, <1>12, <1>13, <1>14, <1>15, StepWithin

-----------------------------------------------------------------------------
LEMMA ContextInit == Init => ContextInv
  <1> SUFFICES ASSUME Init PROVE ContextInv
    OBVIOUS
  <1>1. Main \in Thread
    BY ContextAssumption
  <1>2. Types
    <2>1. [t \in Thread |-> <<>>] \in [Thread -> Seq(Label)]
      BY EmptySeq
    <2>2. stack \in [Thread -> Seq(Label)]
      BY <2>1 DEF Init
    <2>3. life \in [Thread -> {"unborn", "running", "late", "ended", "exit"}]
      BY DEF Init
    <2>4. taken \in [Thread -> Int] /\ doubled \subseteq Thread
      BY DEF Init
    <2> QED BY <2>2, <2>3, <2>4 DEF Init, Types
  <1>3. \A t \in Thread : stack[t] = <<>> /\ None(t) /\ t \notin doubled
    BY DEF Init, None, Bare
  <1>4. \A t \in Thread : ThreadInv(t)
    BY <1>3 DEF Init, ThreadInv, Idle, Constructing, Served, Destructing, Known, Top
  <1>5. \A t \in Thread : Living(t)
    BY <1>1, <1>3 DEF Init, Living, Top
  <1>6. GlobalInv /\ Ready
    BY <1>1, <1>3 DEF Init, GlobalInv, Ready, Top
  <1> QED BY <1>2, <1>4, <1>5, <1>6 DEF ContextInv

LEMMA ContextStutter == ContextInv /\ UNCHANGED vars => ContextInv'
  <1> SUFFICES ASSUME ContextInv, UNCHANGED vars PROVE ContextInv'
    OBVIOUS
  <1>1. /\ UNCHANGED <<gbGlobalCntx, gpGlobalCntx, mHeap, mReserver>>
        /\ UNCHANGED <<gpLocalCntx, gvLocalCntx, mapRealm, mapPool, cached, taken, doubled>>
        /\ UNCHANGED <<dtor, any, life, stack, settled, unready>>
    BY DEF vars, global, context
  <1>2. \A t \in Thread : Alike(t)
    BY <1>1 DEF Alike
  <1>3. \A t \in Thread : ThreadInv(t)'
    BY <1>2, AlikeInv DEF ContextInv
  <1>4. \A t \in Thread : Living(t)'
    BY <1>1 DEF ContextInv, Living, Top
  <1>5. GlobalInv'
    BY <1>1 DEF ContextInv, GlobalInv, Top, Built
  <1>6. Types' /\ Ready'
    BY <1>1 DEF ContextInv, Types, Ready
  <1> QED BY <1>3, <1>4, <1>5, <1>6 DEF ContextInv

LEMMA ContextStep == ContextInv /\ [Next]_vars => ContextInv'
  <1> SUFFICES ASSUME ContextInv, [Next]_vars PROVE ContextInv'
    OBVIOUS
  <1>1. ASSUME NEW t \in Thread, GlobalStep(t) PROVE ContextInv'
    BY <1>1, OnceStep, ConstructHeapStep, ConstructSegmentStep DEF GlobalStep
  <1>2. ASSUME NEW t \in Thread, LocalStep(t) PROVE ContextInv'
    BY <1>2, PtrStep, NameStep, NewStep, LocalSegmentStep, BodyStep DEF LocalStep
  <1>3. ASSUME NEW t \in Thread, CallStep(t) PROVE ContextInv'
    BY <1>3, AllocPoolStep, AllocAnyStep, FreeOwnStep DEF CallStep
  <1>4. ASSUME NEW t \in Thread, DestructStep(t) PROVE ContextInv'
    BY <1>4, DestructStepOf, ClearPoolStep, GiveStep DEF DestructStep
  <1>5. ASSUME NEW t \in Thread, Call(t) \/ Start(t) \/ Return(t) \/ End(t) PROVE ContextInv'
    BY <1>5, CallStepOf, StartStep, ReturnStep, EndStep
  <1>6. ASSUME NEW t \in Thread, NEW u \in Thread, FreeForeign(t, u) PROVE ContextInv'
    BY <1>6, FreeForeignStep
  <1>7. ASSUME Exit \/ GlobalDestruct PROVE ContextInv'
    BY <1>7, ExitStep, ReserverDestructStep, HeapDestructStep DEF GlobalDestruct
  <1>8. ASSUME Finished \/ UNCHANGED vars PROVE ContextInv'
    BY <1>8, ContextStutter DEF Finished
  <1> QED BY <1>1, <1>2, <1>3, <1>4, <1>5, <1>6, <1>7, <1>8 DEF Next, Step

-----------------------------------------------------------------------------
(* What a thread has taken of the global reserver is what its context      *)
(* knows of and what a second construction overwrote: the segments when it *)
(* began, the pool when its tables were emptied.                           *)
Overwriting(t) == Top(t, {"local"}) /\ gpLocalCntx[t]
Over(t) == IF t \notin doubled THEN 0 ELSE IF Overwriting(t) THEN cnRealm ELSE cnRealm + 1
Accounted(t) == taken[t] = Has(t) + Over(t)

(* A step that takes and gives back nothing for a thread.                  *)
SameHas(u) ==
  /\ mapRealm'[u] = mapRealm[u] /\ cached'[u] = cached[u] /\ mapPool'[u] = mapPool[u]
  /\ taken'[u] = taken[u]
SameOver(u) ==
  /\ u \in doubled' <=> u \in doubled
  /\ Overwriting(u)' <=> Overwriting(u)
Same(u) == SameHas(u) /\ SameOver(u)

LEMMA SameAccounted ==
  ASSUME NEW u, Same(u), Accounted(u)
  PROVE  Accounted(u)'
  <1>1. Has(u)' = Has(u)
    BY DEF Same, SameHas, Has
  <1>2. Over(u)' = Over(u)
    BY DEF Same, SameOver, Over
  <1> QED BY <1>1, <1>2 DEF Same, SameHas, Accounted

(* Where a thread stands tells whether it is overwriting anything.         *)
LEMMA StandsElsewhere ==
  ASSUME NEW t, NEW label, NEW rest, Stands(t, label, rest), label # "local"
  PROVE  ~Overwriting(t)
  BY DEF Stands, Overwriting, Top

(* The global context is built for a thread that has none of its own yet.  *)
LEMMA GlobalAccounted ==
  ASSUME ContextInv, NEW t \in Thread, GlobalStep(t)
  PROVE  \A u \in Thread : Same(u)
  <1>1. Types /\ ThreadInv(t)
    BY DEF ContextInv
  <1>2. UNCHANGED <<gpLocalCntx, mapRealm, mapPool, cached, taken, doubled>>
    BY DEF GlobalStep, Once, ConstructHeap, ConstructSegment, context
  <1>3. Top(t, Building)
    BY DEF GlobalStep, Once, ConstructHeap, ConstructSegment, Inside, Top, Building
  <1>4. ~gpLocalCntx[t]
    BY <1>1, <1>3 DEF ThreadInv, Constructing, Bare
  <1>5. \A u \in Thread \ {t} : stack'[u] = stack[u]
    BY <1>1 DEF GlobalStep, Once, ConstructHeap, ConstructSegment, Goto, Types
  <1>6. ~Overwriting(t) /\ ~Overwriting(t)'
    BY <1>2, <1>4 DEF Overwriting
  <1>7. \A u \in Thread \ {t} : Overwriting(u)' <=> Overwriting(u)
    BY <1>2, <1>5 DEF Overwriting, Top
  <1> QED BY <1>2, <1>6, <1>7 DEF Same, SameHas, SameOver

LEMMA PtrAccounted ==
  ASSUME ContextInv, NEW t \in Thread, Ptr(t)
  PROVE  \A u \in Thread : Same(u)
  <1>1. Types /\ ThreadInv(t)
    BY DEF ContextInv
  <1>2. UNCHANGED <<gpLocalCntx, mapRealm, mapPool, cached, taken, doubled>>
    BY DEF Ptr, context
  <1>3. PICK rest \in Seq(Label) : Stands(t, "ptr", rest)
    BY <1>1, InsideStands DEF Ptr
  <1>4. \A u \in Thread \ {t} : stack'[u] = stack[u]
    BY <1>1 DEF Ptr, Goto, Types
  <1>5. ~Overwriting(t)'
    <2> SUFFICES ASSUME gpLocalCntx[t] PROVE ~Top(t, {"local"})'
      BY <1>2 DEF Overwriting
    <2>1. Goto(t, <<>>)
      BY DEF Ptr
    <2>2. stack'[t] = rest
      BY <1>1, <1>3, <2>1, Returns
    <2>3. rest \in Waiting
      BY <1>1, <1>3 DEF ThreadInv, Constructing, Stands, Top, Rest, Making
    <2> QED BY <2>2, <2>3, WaitingStack DEF Top, Serving
  <1>6. ~Overwriting(t)
    BY <1>3, StandsElsewhere
  <1>7. \A u \in Thread \ {t} : Overwriting(u)' <=> Overwriting(u)
    BY <1>2, <1>4 DEF Overwriting, Top
  <1> QED BY <1>2, <1>5, <1>6, <1>7 DEF Same, SameHas, SameOver

LEMMA NameAccounted ==
  ASSUME ContextInv, NEW t \in Thread, Name(t)
  PROVE  \A u \in Thread : Same(u)
  <1>1. Types /\ ThreadInv(t)
    BY DEF ContextInv
  <1>2. UNCHANGED <<gpLocalCntx, mapRealm, mapPool, cached, taken, doubled>>
    BY DEF Name, context
  <1>3. ~gpLocalCntx[t]
    BY <1>1 DEF Name, Inside, Top, ThreadInv, Constructing, None, Bare
  <1>4. \A u \in Thread \ {t} : stack'[u] = stack[u]
    BY <1>1 DEF Name, Goto, Types
  <1>5. ~Overwriting(t) /\ ~Overwriting(t)'
    BY <1>2, <1>3 DEF Overwriting
  <1>6. \A u \in Thread \ {t} : Overwriting(u)' <=> Overwriting(u)
    BY <1>2, <1>4 DEF Overwriting, Top
  <1> QED BY <1>2, <1>5, <1>6 DEF Same, SameHas, SameOver

(* The second construction overwrites the segments of the first, and has   *)
(* no blocks on their stacks to overwrite.                                 *)
LEMMA NewAccounted ==
  ASSUME ContextInv, NEW t \in Thread, Accounted(t), New(t)
  PROVE  Accounted(t)' /\ \A u \in Thread \ {t} : Same(u)
  <1>1. Types /\ ThreadInv(t)
    BY DEF ContextInv
  <1>2. PICK rest \in Seq(Label) : Stands(t, "new", rest)
    BY <1>1, InsideStands DEF New
  <1>3. None(t) \/ (Whole(t) /\ First(t) /\ mapPool[t])
    BY <1>1, <1>2 DEF ThreadInv, Constructing, Stands, Top
  <1>4. /\ UNCHANGED <<gpLocalCntx, mapPool, taken>>
        /\ mapRealm' = [mapRealm EXCEPT ![t] = 0] /\ cached' = [cached EXCEPT ![t] = 0]
        /\ doubled' = IF gpLocalCntx[t] THEN doubled \cup {t} ELSE doubled
        /\ Goto(t, <<"local">>)
    BY DEF New
  <1>5. /\ mapRealm'[t] = 0 /\ cached'[t] = 0
        /\ \A u \in Thread \ {t} : mapRealm'[u] = mapRealm[u] /\ cached'[u] = cached[u]
    BY <1>1, <1>4 DEF Types
  <1>6. /\ Stands(t, "local", rest)'
        /\ \A u \in Thread \ {t} : stack'[u] = stack[u]
    BY <1>1, <1>2, <1>4, Enters DEF Label, Making
  <1>7. ~Overwriting(t) /\ (Overwriting(t)' <=> gpLocalCntx[t])
    BY <1>2, <1>4, <1>6, StandsElsewhere DEF Stands, Overwriting, Top
  <1>8. cnRealm \in Nat
    BY ContextAssumption
  <1>9. Accounted(t)'
    <2>1. CASE None(t)
      <3>1. ~gpLocalCntx[t] /\ mapRealm[t] = 0 /\ cached[t] = 0
        BY <2>1 DEF None, Bare
      <3>2. Has(t)' = Has(t)
        BY <1>4, <1>5, <3>1 DEF Has
      <3>3. Over(t)' = Over(t)
        BY <1>4, <1>7, <3>1 DEF Over
      <3> QED BY <1>4, <3>2, <3>3 DEF Accounted
    <2>2. CASE Whole(t) /\ First(t) /\ mapPool[t]
      <3>1. /\ gpLocalCntx[t] /\ mapRealm[t] = cnRealm /\ cached[t] = 0 /\ mapPool[t]
            /\ t \notin doubled
        BY <2>2 DEF Whole, First
      <3>2. Has(t) = cnRealm + 1 /\ Over(t) = 0
        BY <1>8, <3>1 DEF Has, Over
      <3>3. Has(t)' = 1
        BY <1>4, <1>5, <3>1 DEF Has
      <3>4. Over(t)' = cnRealm
        BY <1>4, <1>7, <3>1 DEF Over
      <3> QED BY <1>4, <1>8, <3>2, <3>3, <3>4 DEF Accounted
    <2> QED BY <1>3, <2>1, <2>2
  <1>10. ASSUME NEW u \in Thread \ {t} PROVE Same(u)
    <2>1. Overwriting(u)' <=> Overwriting(u)
      BY <1>4, <1>6 DEF Overwriting, Top
    <2> QED BY <1>4, <1>5, <2>1 DEF Same, SameHas, SameOver
  <1> QED BY <1>9, <1>10

LEMMA LocalSegmentAccounted ==
  ASSUME ContextInv, NEW t \in Thread, Accounted(t), LocalSegment(t)
  PROVE  Accounted(t)' /\ \A u \in Thread \ {t} : Same(u)
  <1>1. Types /\ ThreadInv(t) /\ GlobalInv
    BY DEF ContextInv
  <1>2. PICK rest \in Seq(Label) : Stands(t, "local", rest)
    BY <1>1, InsideStands DEF LocalSegment
  <1>3. UNCHANGED <<gpLocalCntx, mapPool, cached, doubled>>
    BY DEF LocalSegment
  <1>4. gpLocalCntx[t] => gpGlobalCntx
    <2> SUFFICES ASSUME gpLocalCntx[t] PROVE gpGlobalCntx
      OBVIOUS
    <2>1. gbGlobalCntx = "done"
      BY <1>1 DEF GlobalInv
    <2> QED BY <1>2, <2>1, HasBuilt DEF Stands, Top, Built
  <1>5. mapRealm[t] \in Nat /\ cached[t] \in Nat /\ taken[t] \in Int /\ cnRealm \in Nat
    BY <1>1, ContextAssumption DEF Types
  <1>6. CASE ~gpGlobalCntx /\ Goto(t, <<"once", "local">>) /\ UNCHANGED <<mapRealm, taken>>
    <2>1. ~Overwriting(t) /\ ~Overwriting(t)'
      BY <1>3, <1>4, <1>6 DEF Overwriting
    <2>2. \A u \in Thread \ {t} : stack'[u] = stack[u]
      BY <1>1, <1>6 DEF Goto, Types
    <2>3. \A u \in Thread \ {t} : Overwriting(u)' <=> Overwriting(u)
      BY <1>3, <2>2 DEF Overwriting, Top
    <2>4. \A u \in Thread : Same(u)
      BY <1>3, <1>6, <2>1, <2>3 DEF Same, SameHas, SameOver
    <2> QED BY <2>4, SameAccounted
  <1>7. CASE /\ mapRealm' = [mapRealm EXCEPT ![t] = @ + 1]
             /\ taken' = [taken EXCEPT ![t] = @ + 1] /\ UNCHANGED stack
    <2>1. /\ mapRealm'[t] = mapRealm[t] + 1 /\ taken'[t] = taken[t] + 1
          /\ \A u \in Thread \ {t} : mapRealm'[u] = mapRealm[u] /\ taken'[u] = taken[u]
      BY <1>1, <1>7 DEF Types
    <2>2. \A u \in Thread : Overwriting(u)' <=> Overwriting(u)
      BY <1>3, <1>7 DEF Overwriting, Top
    <2>3. Over(t)' = Over(t) /\ Over(t) \in Nat
      BY <1>3, <1>5, <2>2 DEF Over
    <2>4. Has(t)' = Has(t) + 1 /\ Has(t) \in Nat
      <3>1. cached'[t] = cached[t] /\ mapPool'[t] = mapPool[t]
        BY <1>3
      <3>2. CASE mapPool[t]
        <4>1. Has(t) = mapRealm[t] + cached[t] + 1
          BY <3>2 DEF Has
        <4>2. Has(t)' = mapRealm'[t] + cached'[t] + 1
          BY <3>1, <3>2 DEF Has
        <4> QED BY <1>5, <2>1, <3>1, <4>1, <4>2
      <3>3. CASE ~mapPool[t]
        <4>1. Has(t) = mapRealm[t] + cached[t] + 0
          BY <3>3 DEF Has
        <4>2. Has(t)' = mapRealm'[t] + cached'[t] + 0
          BY <3>1, <3>3 DEF Has
        <4> QED BY <1>5, <2>1, <3>1, <4>1, <4>2
      <3> QED BY <3>2, <3>3
    <2>5. \A u \in Thread \ {t} : Same(u)
      BY <1>3, <2>1, <2>2 DEF Same, SameHas, SameOver
    <2> QED BY <1>5, <2>1, <2>3, <2>4, <2>5 DEF Accounted
  <1> QED BY <1>6, <1>7 DEF LocalSegment

(* The tables are emptied, and with them the pool of the first             *)
(* construction is forgotten.                                              *)
LEMMA BodyAccounted ==
  ASSUME ContextInv, NEW t \in Thread, Accounted(t), Body(t)
  PROVE  Accounted(t)' /\ \A u \in Thread \ {t} : Same(u)
  <1>1. Types /\ ThreadInv(t)
    BY DEF ContextInv
  <1>2. PICK rest \in Seq(Label) : Stands(t, "local", rest)
    BY <1>1, InsideStands DEF Body
  <1>3. rest \in Waiting /\ (Bare(t) \/ Second(t))
    BY <1>1, <1>2 DEF ThreadInv, Constructing, Stands, Top, Rest, Making
  <1>4. /\ UNCHANGED <<mapRealm, cached, taken, doubled>>
        /\ mapPool' = [mapPool EXCEPT ![t] = FALSE]
        /\ gpLocalCntx' = [gpLocalCntx EXCEPT ![t] = @ \/ gvLocalCntx[t] = 0]
        /\ Goto(t, <<>>)
    BY DEF Body
  <1>5. /\ ~mapPool'[t]
        /\ \A u \in Thread \ {t} : mapPool'[u] = mapPool[u] /\ gpLocalCntx'[u] = gpLocalCntx[u]
    BY <1>1, <1>4 DEF Types
  <1>6. stack'[t] = rest /\ \A u \in Thread \ {t} : stack'[u] = stack[u]
    BY <1>1, <1>2, <1>4, Returns
  <1>7. ~Overwriting(t)'
    BY <1>3, <1>6, WaitingStack DEF Overwriting, Top, Serving
  <1>8. mapRealm[t] \in Nat /\ cached[t] \in Nat /\ cnRealm \in Nat
    BY <1>1, ContextAssumption DEF Types
  <1>9. Accounted(t)'
    <2>1. CASE Bare(t)
      <3>1. ~mapPool[t] /\ ~Overwriting(t)
        BY <2>1 DEF Bare, Overwriting
      <3>2. Has(t)' = Has(t)
        BY <1>4, <1>5, <3>1 DEF Has
      <3>3. Over(t)' = Over(t)
        BY <1>4, <1>7, <3>1 DEF Over
      <3> QED BY <1>4, <3>2, <3>3 DEF Accounted
    <2>2. CASE Second(t)
      <3>1. mapPool[t] /\ t \in doubled /\ Overwriting(t)
        BY <1>2, <2>2 DEF Second, Single, Overwriting, Stands, Top
      <3>2. Has(t) = mapRealm[t] + cached[t] + 1 /\ Over(t) = cnRealm
        BY <3>1 DEF Has, Over
      <3>3. Has(t)' = mapRealm[t] + cached[t] + 0
        BY <1>4, <1>5 DEF Has
      <3>4. Over(t)' = cnRealm + 1
        BY <1>4, <1>7, <3>1 DEF Over
      <3> QED BY <1>4, <1>8, <3>2, <3>3, <3>4 DEF Accounted
    <2> QED BY <1>3, <2>1, <2>2
  <1>10. ASSUME NEW u \in Thread \ {t} PROVE Same(u)
    <2>1. Overwriting(u)' <=> Overwriting(u)
      BY <1>5, <1>6 DEF Overwriting, Top
    <2> QED BY <1>4, <1>5, <2>1 DEF Same, SameHas, SameOver
  <1> QED BY <1>9, <1>10

(* A call that is served leaves its thread in front of a second            *)
(* construction or inside of nothing.                                      *)
LEMMA ServedElsewhere ==
  ASSUME ContextInv, NEW t \in Thread, NEW label \in Serving, Inside(t, label), Goto(t, <<>>)
  PROVE  /\ ~Overwriting(t) /\ ~Overwriting(t)'
         /\ \A u \in Thread \ {t} : stack'[u] = stack[u]
  <1>1. Types /\ ThreadInv(t)
    BY DEF ContextInv
  <1>2. PICK rest \in Seq(Label) : Stands(t, label, rest)
    BY <1>1, InsideStands
  <1>3. stack[t] \in Waiting
    BY <1>1 DEF Inside, Top, ThreadInv, Served
  <1>4. stack'[t] = rest /\ \A u \in Thread \ {t} : stack'[u] = stack[u]
    BY <1>1, <1>2, Returns
  <1>5. rest = <<>> \/ (rest # <<>> /\ Head(rest) = "new")
    <2>1. CASE stack[t] \in Outer
      BY <1>2, <1>3, <2>1, WaitingStack DEF Stands
    <2>2. CASE stack[t] \in Inner
      <3>1. PICK outer \in Outer : rest = On("new", outer)
        BY <1>2, <1>3, <2>2, WaitingStack DEF Stands
      <3>2. "new" \in Label /\ outer \in Seq(Label)
        BY WaitingStack DEF Label, Making, Waiting
      <3> QED BY <3>1, <3>2, OnTop
    <2> QED BY <1>3, <2>1, <2>2 DEF Waiting
  <1>6. ~Overwriting(t)'
    BY <1>4, <1>5 DEF Overwriting, Top
  <1>7. ~Overwriting(t)
    BY <1>2, StandsElsewhere DEF Serving
  <1> QED BY <1>4, <1>6, <1>7

(* What a call takes or gives back, its context knows of.                  *)
LEMMA CallAccounted ==
  ASSUME ContextInv, NEW t \in Thread, Accounted(t), CallStep(t)
  PROVE  Accounted(t)' /\ \A u \in Thread \ {t} : Same(u)
  <1>1. Types
    BY DEF ContextInv
  <1>2. UNCHANGED <<gpLocalCntx, mapRealm, doubled>>
    BY DEF CallStep, AllocPool, AllocAny, FreeOwn
  <1>3. \E label \in Serving : Inside(t, label) /\ Goto(t, <<>>)
    BY DEF CallStep, AllocPool, AllocAny, FreeOwn, Serving
  <1>4. /\ ~Overwriting(t) /\ ~Overwriting(t)'
        /\ \A u \in Thread \ {t} : stack'[u] = stack[u]
    BY <1>3, ServedElsewhere
  <1>5. \A u \in Thread \ {t} : Overwriting(u)' <=> Overwriting(u)
    BY <1>2, <1>4 DEF Overwriting, Top
  <1>6. mapRealm[t] \in Nat /\ cached[t] \in Nat /\ taken[t] \in Int /\ cnRealm \in Nat
    BY <1>1, ContextAssumption DEF Types
  <1>7. Over(t)' = Over(t) /\ Over(t) \in Nat
    BY <1>2, <1>4, <1>6 DEF Over
  <1>8. CASE AllocPool(t)
    <2>1. /\ mapPool' = [mapPool EXCEPT ![t] = TRUE] /\ UNCHANGED cached
          /\ taken' = [taken EXCEPT ![t] = IF mapPool[t] THEN @ ELSE @ + 1]
      BY <1>8 DEF AllocPool
    <2>2. /\ mapPool'[t] /\ taken'[t] = taken[t] + (IF mapPool[t] THEN 0 ELSE 1)
          /\ \A u \in Thread \ {t} : mapPool'[u] = mapPool[u] /\ taken'[u] = taken[u]
      BY <1>1, <1>6, <2>1 DEF Types
    <2>3. Has(t)' = Has(t) + (IF mapPool[t] THEN 0 ELSE 1) /\ Has(t) \in Nat
      BY <1>2, <1>6, <2>1, <2>2 DEF Has
    <2>4. \A u \in Thread \ {t} : Same(u)
      BY <1>2, <1>5, <2>1, <2>2 DEF Same, SameHas, SameOver
    <2> QED BY <1>6, <1>7, <2>2, <2>3, <2>4 DEF Accounted
  <1>9. CASE AllocAny(t)
    <2>1. /\ cached' = [cached EXCEPT ![t] = IF @ > 0 THEN @ - 1 ELSE 0] /\ UNCHANGED mapPool
          /\ taken' = [taken EXCEPT ![t] = IF cached[t] > 0 THEN @ - 1 ELSE @]
      BY <1>9 DEF AllocAny
    <2>2. /\ cached'[t] = cached[t] - (IF cached[t] > 0 THEN 1 ELSE 0)
          /\ taken'[t] = taken[t] - (IF cached[t] > 0 THEN 1 ELSE 0)
          /\ \A u \in Thread \ {t} : cached'[u] = cached[u] /\ taken'[u] = taken[u]
      BY <1>1, <1>6, <2>1 DEF Types
    <2>3. Has(t)' = Has(t) - (IF cached[t] > 0 THEN 1 ELSE 0) /\ Has(t) \in Nat
      BY <1>2, <1>6, <2>1, <2>2 DEF Has
    <2>4. \A u \in Thread \ {t} : Same(u)
      BY <1>2, <1>5, <2>1, <2>2 DEF Same, SameHas, SameOver
    <2> QED BY <1>6, <1>7, <2>2, <2>3, <2>4 DEF Accounted
  <1>10. CASE FreeOwn(t)
    <2>1. /\ cached' = [cached EXCEPT ![t] = @ + 1] /\ UNCHANGED mapPool
          /\ taken' = [taken EXCEPT ![t] = @ + 1]
      BY <1>10 DEF FreeOwn
    <2>2. /\ cached'[t] = cached[t] + 1 /\ taken'[t] = taken[t] + 1
          /\ \A u \in Thread \ {t} : cached'[u] = cached[u] /\ taken'[u] = taken[u]
      BY <1>1, <2>1 DEF Types
    <2>3. Has(t)' = Has(t) + 1 /\ Has(t) \in Nat
      <3>1. mapRealm'[t] = mapRealm[t] /\ mapPool'[t] = mapPool[t]
        BY <1>2, <2>1
      <3> QED BY <1>6, <2>2, <3>1 DEF Has
    <2>4. \A u \in Thread \ {t} : Same(u)
      BY <1>2, <1>5, <2>1, <2>2 DEF Same, SameHas, SameOver
    <2> QED BY <1>6, <1>7, <2>2, <2>3, <2>4 DEF Accounted
  <1> QED BY <1>8, <1>9, <1>10 DEF CallStep

LEMMA DestructAccounted ==
  ASSUME ContextInv, NEW t \in Thread, Destruct(t)
  PROVE  \A u \in Thread : Same(u)
  <1>1. Types
    BY DEF ContextInv
  <1>2. PICK rest \in Seq(Label) : Stands(t, "~", rest)
    BY <1>1, InsideStands DEF Destruct
  <1>3. UNCHANGED <<gpLocalCntx, mapRealm, mapPool, cached, taken, doubled>>
    BY DEF Destruct
  <1>4. ~Overwriting(t)
    BY <1>2, StandsElsewhere
  <1>5. ~Overwriting(t)' /\ \A u \in Thread \ {t} : stack'[u] = stack[u]
    <2>1. CASE ~gpLocalCntx[t] /\ Goto(t, <<>>)
      BY <1>1, <1>2, <1>3, <2>1, Returns DEF Overwriting
    <2>2. CASE Goto(t, AfterCount(gvLocalCntx'[t]))
      <3>1. PICK label \in {"clear", "~"} : Goto(t, <<label>>)
        BY <2>2 DEF AfterCount
      <3>2. label \in Label /\ label # "local"
        BY <3>1 DEF Label, Ending
      <3>3. Stands(t, label, rest)' /\ \A u \in Thread \ {t} : stack'[u] = stack[u]
        BY <1>1, <1>2, <3>1, <3>2, Enters
      <3> QED BY <3>2, <3>3 DEF Stands, Overwriting, Top
    <2> QED BY <2>1, <2>2 DEF Destruct
  <1>6. \A u \in Thread \ {t} : Overwriting(u)' <=> Overwriting(u)
    BY <1>3, <1>5 DEF Overwriting, Top
  <1> QED BY <1>3, <1>4, <1>5, <1>6 DEF Same, SameHas, SameOver

(* The pool's block comes onto a stack, or is left to those who have       *)
(* parcels of the pool.                                                    *)
LEMMA ClearPoolAccounted ==
  ASSUME ContextInv, NEW t \in Thread, Accounted(t), ClearPool(t)
  PROVE  Accounted(t)' /\ \A u \in Thread \ {t} : Same(u)
  <1>1. Types
    BY DEF ContextInv
  <1>2. PICK rest \in Seq(Label) : Stands(t, "clear", rest)
    BY <1>1, InsideStands DEF ClearPool
  <1>3. /\ UNCHANGED <<gpLocalCntx, mapRealm, doubled>>
        /\ mapPool' = [mapPool EXCEPT ![t] = FALSE] /\ Goto(t, <<"give">>)
        /\ \/ mapPool[t] /\ cached' = [cached EXCEPT ![t] = @ + 1] /\ UNCHANGED taken
           \/ taken' = [taken EXCEPT ![t] = IF mapPool[t] THEN @ - 1 ELSE @] /\ UNCHANGED cached
    BY DEF ClearPool
  <1>4. /\ Stands(t, "give", rest)'
        /\ \A u \in Thread \ {t} : stack'[u] = stack[u]
    BY <1>1, <1>2, <1>3, Enters DEF Label, Ending
  <1>5. ~Overwriting(t) /\ ~Overwriting(t)'
    BY <1>2, <1>4, StandsElsewhere DEF Stands, Overwriting, Top
  <1>6. mapRealm[t] \in Nat /\ cached[t] \in Nat /\ taken[t] \in Int /\ cnRealm \in Nat
    BY <1>1, ContextAssumption DEF Types
  <1>7. Over(t)' = Over(t) /\ Over(t) \in Nat
    BY <1>3, <1>5, <1>6 DEF Over
  <1>8. /\ ~mapPool'[t]
        /\ \A u \in Thread \ {t} : /\ mapPool'[u] = mapPool[u] /\ cached'[u] = cached[u]
                                   /\ taken'[u] = taken[u]
    BY <1>1, <1>3 DEF Types
  <1>9. Has(t)' = mapRealm[t] + cached'[t] + 0
    BY <1>3, <1>8 DEF Has
  <1>10. Accounted(t)'
    <2>1. CASE mapPool[t] /\ cached' = [cached EXCEPT ![t] = @ + 1] /\ UNCHANGED taken
      <3>1. cached'[t] = cached[t] + 1 /\ taken'[t] = taken[t]
        BY <1>1, <2>1 DEF Types
      <3>2. Has(t) = mapRealm[t] + cached[t] + 1
        BY <2>1 DEF Has
      <3> QED BY <1>6, <1>7, <1>9, <3>1, <3>2 DEF Accounted
    <2>2. CASE taken' = [taken EXCEPT ![t] = IF mapPool[t] THEN @ - 1 ELSE @] /\ UNCHANGED cached
      <3>1. cached'[t] = cached[t] /\ taken'[t] = taken[t] - (IF mapPool[t] THEN 1 ELSE 0)
        BY <1>1, <1>6, <2>2 DEF Types
      <3>2. Has(t) = mapRealm[t] + cached[t] + (IF mapPool[t] THEN 1 ELSE 0)
        BY DEF Has
      <3> QED BY <1>6, <1>7, <1>9, <3>1, <3>2 DEF Accounted
    <2> QED BY <1>3, <2>1, <2>2
  <1>11. \A u \in Thread \ {t} : Overwriting(u)' <=> Overwriting(u)
    BY <1>3, <1>4 DEF Overwriting, Top
  <1>12. \A u \in Thread \ {t} : Same(u)
    BY <1>3, <1>8, <1>11 DEF Same, SameHas, SameOver
  <1> QED BY <1>10, <1>12

(* The segments and the blocks on their stacks are given back.             *)
LEMMA GiveAccounted ==
  ASSUME ContextInv, NEW t \in Thread, Accounted(t), Give(t)
  PROVE  Accounted(t)' /\ \A u \in Thread \ {t} : Same(u)
  <1>1. Types /\ ThreadInv(t)
    BY DEF ContextInv
  <1>2. PICK rest \in Seq(Label) : Stands(t, "give", rest)
    BY <1>1, InsideStands DEF Give
  <1>3. /\ UNCHANGED <<mapPool, doubled>>
        /\ taken' = [taken EXCEPT ![t] = @ - mapRealm[t] - cached[t]]
        /\ mapRealm' = [mapRealm EXCEPT ![t] = 0] /\ cached' = [cached EXCEPT ![t] = 0]
        /\ gpLocalCntx' = [gpLocalCntx EXCEPT ![t] = FALSE] /\ Goto(t, <<>>)
    BY DEF Give
  <1>4. ~mapPool[t]
    BY <1>1, <1>2 DEF ThreadInv, Destructing, Stands, Top
  <1>5. /\ mapRealm'[t] = 0 /\ cached'[t] = 0 /\ ~gpLocalCntx'[t]
        /\ taken'[t] = taken[t] - mapRealm[t] - cached[t]
        /\ \A u \in Thread \ {t} : /\ mapRealm'[u] = mapRealm[u] /\ cached'[u] = cached[u]
                                   /\ taken'[u] = taken[u] /\ gpLocalCntx'[u] = gpLocalCntx[u]
    BY <1>1, <1>3 DEF Types
  <1>6. \A u \in Thread \ {t} : stack'[u] = stack[u]
    BY <1>1, <1>2, <1>3, Returns
  <1>7. ~Overwriting(t) /\ ~Overwriting(t)'
    BY <1>2, <1>5, StandsElsewhere DEF Overwriting
  <1>8. mapRealm[t] \in Nat /\ cached[t] \in Nat /\ taken[t] \in Int /\ cnRealm \in Nat
    BY <1>1, ContextAssumption DEF Types
  <1>9. Over(t)' = Over(t) /\ Over(t) \in Nat
    BY <1>3, <1>7, <1>8 DEF Over
  <1>10. Has(t) = mapRealm[t] + cached[t] + 0 /\ Has(t)' = 0
    BY <1>3, <1>4, <1>5 DEF Has
  <1>11. Accounted(t)'
    BY <1>5, <1>8, <1>9, <1>10 DEF Accounted
  <1>12. \A u \in Thread \ {t} : Overwriting(u)' <=> Overwriting(u)
    BY <1>5, <1>6 DEF Overwriting, Top
  <1>13. \A u \in Thread \ {t} : Same(u)
    BY <1>3, <1>5, <1>12 DEF Same, SameHas, SameOver
  <1> QED BY <1>11, <1>13

(* Beginning and end of a call, a thread or the process.                   *)
LEMMA OutsideAccounted ==
  ASSUME ContextInv, ContextInv',
         \/ \E t \in Thread : Call(t) \/ Start(t) \/ Return(t) \/ End(t)
         \/ \E t, u \in Thread : FreeForeign(t, u)
         \/ Exit \/ GlobalDestruct \/ UNCHANGED vars
  PROVE  \A u \in Thread : Same(u)
  <1>1. Types /\ (\A t \in Thread : ThreadInv(t) /\ Living(t))
    BY DEF ContextInv
  <1>2. \A t \in Thread : ThreadInv(t)' /\ Living(t)'
    BY DEF ContextInv
  <1>3. UNCHANGED <<gpLocalCntx, mapRealm, mapPool, cached, taken, doubled>>
    BY DEF Call, Start, Return, End, FreeForeign, Exit, GlobalDestruct, ReserverDestruct,
           HeapDestruct, vars, context
  <1>4. \A u \in Thread : (stack'[u] = stack[u]) => (Overwriting(u)' <=> Overwriting(u))
    BY <1>3 DEF Overwriting, Top
  <1>5. \A u \in Thread : Overwriting(u)' <=> Overwriting(u)
    <2>1. ASSUME NEW t \in Thread, Call(t) PROVE \A u \in Thread : Overwriting(u)' <=> Overwriting(u)
      <3>1. stack[t] = <<>> /\ \E label \in Serving : stack' = [stack EXCEPT ![t] = <<"ptr", label>>]
        BY <2>1 DEF Call, MayCall, Serving
      <3>2. (\A u \in Thread \ {t} : stack'[u] = stack[u]) /\ Head(stack'[t]) = "ptr"
        BY <1>1, <3>1 DEF Types
      <3>3. ~Overwriting(t) /\ ~Overwriting(t)'
        BY <3>1, <3>2 DEF Overwriting, Top
      <3> QED BY <1>4, <3>2, <3>3
    <2>2. ASSUME NEW t \in Thread, Return(t)
          PROVE  \A u \in Thread : Overwriting(u)' <=> Overwriting(u)
      <3>1. stack[t] = <<>> /\ t \in settled' /\ \A u \in Thread \ {t} : stack'[u] = stack[u]
        BY <1>1, <2>2 DEF Return, Types
      <3>2. stack'[t] = <<>> \/ Top(t, Ending \cup Closing)'
        BY <1>2, <3>1 DEF ThreadInv, Known
      <3>3. ~Overwriting(t) /\ ~Overwriting(t)'
        BY <3>1, <3>2 DEF Overwriting, Top, Ending, Closing
      <3> QED BY <1>4, <3>1, <3>3
    <2>3. ASSUME Exit PROVE \A u \in Thread : Overwriting(u)' <=> Overwriting(u)
      <3>1. /\ stack[Main] = <<>> /\ Main \in settled' /\ Main \in Thread
            /\ \A u \in Thread \ {Main} : stack'[u] = stack[u]
        BY <1>1, <2>3, ContextAssumption DEF Exit, Types
      <3>2. stack'[Main] = <<>> \/ Top(Main, Ending \cup Closing)'
        BY <1>2, <3>1 DEF ThreadInv, Known
      <3>3. ~Overwriting(Main) /\ ~Overwriting(Main)'
        BY <3>1, <3>2 DEF Overwriting, Top, Ending, Closing
      <3> QED BY <1>4, <3>1, <3>3
    <2>4. ASSUME GlobalDestruct PROVE \A u \in Thread : Overwriting(u)' <=> Overwriting(u)
      <3>1. /\ Main \in Thread /\ Top(Main, Closing)
            /\ \A u \in Thread \ {Main} : stack'[u] = stack[u]
        BY <1>1, <2>4, ContextAssumption
           DEF GlobalDestruct, ReserverDestruct, HeapDestruct, Inside, Top, Closing, Goto, Types
      <3>2. ~gpLocalCntx[Main]
        BY <1>1, <3>1 DEF ThreadInv, Destructing, None, Bare
      <3>3. ~Overwriting(Main) /\ ~Overwriting(Main)'
        BY <1>3, <3>2 DEF Overwriting
      <3> QED BY <1>4, <3>1, <3>3
    <2>5. ASSUME UNCHANGED stack PROVE \A u \in Thread : Overwriting(u)' <=> Overwriting(u)
      BY <1>4, <2>5
    <2>6. ASSUME NEW t \in Thread, Start(t) \/ End(t) PROVE UNCHANGED stack
      BY <2>6 DEF Start, End
    <2>7. ASSUME NEW t \in Thread, NEW u \in Thread, FreeForeign(t, u) PROVE UNCHANGED stack
      BY <2>7 DEF FreeForeign
    <2>8. ASSUME UNCHANGED vars PROVE UNCHANGED stack
      BY <2>8 DEF vars
    <2> QED BY <2>1, <2>2, <2>3, <2>4, <2>5, <2>6, <2>7, <2>8
  <1> QED BY <1>3, <1>5 DEF Same, SameHas, SameOver

LEMMA AccountedStep ==
  ASSUME ContextInv, ContextInv', [Next]_vars, \A u \in Thread : Accounted(u)
  PROVE  \A u \in Thread : Accounted(u)'
  <1>1. ASSUME \A u \in Thread : Same(u) PROVE \A u \in Thread : Accounted(u)'
    BY <1>1, SameAccounted
  <1>2. ASSUME NEW t \in Thread, Accounted(t)' /\ \A u \in Thread \ {t} : Same(u)
        PROVE  \A u \in Thread : Accounted(u)'
    BY <1>2, SameAccounted
  <1>3. ASSUME NEW t \in Thread, GlobalStep(t) \/ Ptr(t) \/ Name(t) \/ Destruct(t)
        PROVE  \A u \in Thread : Same(u)
    BY <1>3, GlobalAccounted, PtrAccounted, NameAccounted, DestructAccounted
  <1>4. ASSUME NEW t \in Thread,
               New(t) \/ LocalSegment(t) \/ Body(t) \/ CallStep(t) \/ ClearPool(t) \/ Give(t)
        PROVE  Accounted(t)' /\ \A u \in Thread \ {t} : Same(u)
    BY <1>4, NewAccounted, LocalSegmentAccounted, BodyAccounted, CallAccounted,
       ClearPoolAccounted, GiveAccounted
  <1>5. ASSUME NEW t \in Thread, Step(t) PROVE \A u \in Thread : Accounted(u)'
    BY <1>1, <1>2, <1>3, <1>4, <1>5 DEF Step, LocalStep, DestructStep
  <1>6. CASE \/ \E t \in Thread : Call(t) \/ Start(t) \/ Return(t) \/ End(t)
             \/ \E t, u \in Thread : FreeForeign(t, u)
             \/ Exit \/ GlobalDestruct \/ UNCHANGED vars
    BY <1>1, <1>6, OutsideAccounted
  <1>7. Finished => UNCHANGED vars
    BY DEF Finished
  <1> QED BY <1>5, <1>6, <1>7 DEF Next

-----------------------------------------------------------------------------
(* The invariant holds of every thread and of the global context.          *)
THEOREM ContextInductive == Spec => []ContextInv
  BY ContextInit, ContextStep, PTL DEF Spec

(* Nothing is used before it is set up or after it has been taken down.    *)
THEOREM NothingUnready == Spec => []Ready
  <1>1. ContextInv => Ready
    BY DEF ContextInv
  <1> QED BY <1>1, ContextInductive, PTL

AccountedInv == \A t \in Thread : Accounted(t)

(* The global reserver and the contexts agree on what every thread has     *)
(* taken, but for what a second construction overwrote.                    *)
THEOREM TakenAccounted == Spec => []AccountedInv
  <1>1. Init => AccountedInv
    BY DEF Init, AccountedInv, Accounted, Has, Over
  <1>2. ContextInv /\ ContextInv' /\ AccountedInv /\ [Next]_vars => AccountedInv'
    BY AccountedStep DEF AccountedInv
  <1> QED BY <1>1, <1>2, ContextInductive, PTL DEF Spec

(* After its destructor a thread has no context and has given back what it *)
(* took, but for what a second construction overwrote: the segments and    *)
(* the pool of one inner construction.  A thread that ends with a context  *)
(* that nobody destroys ends with one whole context and no more.           *)
THEOREM LeavesNothing == Spec => []GivenBack
  <1>1. ContextInv /\ AccountedInv => GivenBack
    <2> SUFFICES ASSUME ContextInv, AccountedInv, NEW t \in Thread
                 PROVE  /\ Past(t) => ~gpLocalCntx[t] /\ gvLocalCntx[t] = 0 /\ taken[t] = Lost(t)
                        /\ (life[t] = "ended" /\ gpLocalCntx[t]) =>
                             mapRealm[t] = cnRealm /\ taken[t] = Has(t) + Lost(t)
      BY DEF GivenBack
    <2>1. ThreadInv(t) /\ Living(t) /\ stack[t] \in Seq(Label) /\ Accounted(t)
      BY DEF ContextInv, Types, AccountedInv
    <2>2. ~Overwriting(t) => Over(t) = Lost(t)
      BY DEF Over, Lost
    <2>3. ASSUME Past(t) PROVE None(t)
      <3>1. (stack[t] = <<>> => None(t)) /\ (stack[t] = <<>> \/ Top(t, Ending \cup Closing))
        BY <2>1, <2>3 DEF ThreadInv, Known, Past
      <3>2. CASE Top(t, Ending \cup Closing)
        <4>1. stack[t] # <<>> /\ Head(stack[t]) = stack[t][1] /\ 1 \in DOMAIN stack[t]
          BY <2>1, <3>2 DEF Top
        <4>2. Head(stack[t]) # "~"
          BY <2>3, <4>1 DEF Past
        <4>3. Head(stack[t]) # "clear" /\ Head(stack[t]) # "give"
          BY <2>3, <4>1 DEF Past, Inside
        <4>4. Top(t, Closing)
          BY <3>2, <4>2, <4>3 DEF Top, Ending
        <4> QED BY <2>1, <4>4 DEF ThreadInv, Destructing
      <3> QED BY <3>1, <3>2
    <2>4. ASSUME None(t) PROVE ~gpLocalCntx[t] /\ gvLocalCntx[t] = 0 /\ taken[t] = Lost(t)
      <3>1. /\ ~gpLocalCntx[t] /\ gvLocalCntx[t] = 0 /\ ~mapPool[t] /\ cached[t] = 0
            /\ mapRealm[t] = 0
        BY <2>4 DEF None, Bare
      <3>2. Has(t) = 0 /\ ~Overwriting(t)
        BY <3>1 DEF Has, Overwriting
      <3>3. Lost(t) \in Nat
        BY ContextAssumption DEF Lost
      <3> QED BY <2>1, <2>2, <3>1, <3>2, <3>3 DEF Accounted
    <2>5. ASSUME life[t] = "ended" /\ gpLocalCntx[t]
          PROVE  mapRealm[t] = cnRealm /\ taken[t] = Has(t) + Lost(t)
      <3>1. stack[t] = <<>>
        BY <2>1, <2>5 DEF Living
      <3>2. Whole(t)
        BY <2>1, <2>5, <3>1 DEF ThreadInv, Idle, None, Bare
      <3>3. ~Overwriting(t)
        BY <3>1 DEF Overwriting, Top
      <3> QED BY <2>1, <2>2, <3>2, <3>3 DEF Accounted, Whole
    <2> QED BY <2>3, <2>4, <2>5
  <1> QED BY <1>1, ContextInductive, TakenAccounted, PTL
=============================================================================
