---------------------------- MODULE StreamProofs ----------------------------
(***************************************************************************)
(* What srtp_stream_alloc, srtp_stream_clone, srtp_stream_init and         *)
(* srtp_stream_dealloc do to the memory of a session that holds one        *)
(* template and a list of streams, and another of each while a template is *)
(* updated.                                                                *)
(***************************************************************************)
EXTENDS SrtpSession, TLAPS

(* The objects of a stream's own generation are its own; what it holds     *)
(* besides is its template's.                                              *)
Own(s) == {o \in s.ptrs : o[1] = s.gen}

Made(s) == s.gen \in Nat \ {0} /\ <<s.gen, "stream", 0>> \in s.ptrs

Whole(s) == s.ptrs = Own(s) /\ <<s.gen, "rtp_auth", 1>> \in s.ptrs

CloneOf(s, t) ==
    /\ s.n = t.n
    /\ s.ptrs \ Own(s) = {o \in t.ptrs : o[2] \in PerKey \cup {"enc_xtn_hdr"}}

Backed(s, T) == s.ptrs = Own(s) \/ \E t \in T : CloneOf(s, t)

(* T and N are templates, L and K the streams that may share with them.    *)
Sound(h, T, L, N, K) ==
    /\ \A s \in T \cup L \cup N \cup K : Made(s) /\ s.ptrs \subseteq h
    /\ \A s, t \in T \cup L \cup N \cup K : s.gen = t.gen => s = t
    /\ T \cap L = {} /\ T \cap N = {} /\ T \cap K = {}
    /\ L \cap N = {} /\ L \cap K = {} /\ N \cap K = {}
    /\ \A s \in T \cup N : Whole(s)
    /\ \A s, t \in T : s = t
    /\ \A s, t \in N : s = t
    /\ \A s \in L : Backed(s, T)
    /\ \A s \in K : Backed(s, N)

Tight(h, S) == \A o \in h : o = TheSession \/ \E s \in S : o \in s.ptrs

Distinct(l) == \A i, j \in 1..Len(l) : l[i] = l[j] => i = j

IsList(l) == l \in Seq(InList(l)) /\ Distinct(l)

IsStream(s) ==
    /\ s = [gen |-> s.gen, ssrc |-> s.ssrc, n |-> s.n, mki |-> s.mki, ptrs |-> s.ptrs, dir |-> s.dir,
            index |-> s.index, rtcp |-> s.rtcp]
    /\ s.ssrc \in Ssrc /\ s.n \in 1..MaxKeys /\ s.dir \in Direction
    /\ s.index \in Nat /\ s.rtcp \in Nat

----------------------------------------------------------------------------
(* The two halves of a session are alike.                                  *)
LEMMA SoundSwap ==
    ASSUME NEW h, NEW T, NEW L, NEW N, NEW K, Sound(h, T, L, N, K)
    PROVE  Sound(h, N, K, T, L)
<1>1. T \cup L \cup N \cup K = N \cup K \cup T \cup L /\ N \cup T = T \cup N
  BY Zenon
<1>2. N \cap K = {} /\ N \cap T = {} /\ N \cap L = {} /\ K \cap T = {} /\ K \cap L = {} /\ T \cap L = {}
  BY Zenon DEF Sound
<1> QED
  BY <1>1, <1>2, Zenon DEF Sound

(* A stream of the list that is freed against its template gives back its  *)
(* own objects, all of them allocated, and no other stream points to one.  *)
LEMMA ReleasedIsOwn ==
    ASSUME NEW h, NEW T, NEW L, NEW N, NEW K, Sound(h, T, L, N, K), NEW s \in L
    PROVE  /\ Released(s, T) = Own(s)
           /\ Own(s) \subseteq h
           /\ \A r \in T \cup L \cup N \cup K : r # s => r.ptrs \cap Own(s) = {}
<1>1. ASSUME NEW o \in Own(s), NEW t \in T
      PROVE  o \notin t.ptrs
  <2>1. t.ptrs = Own(t) /\ t.gen # s.gen
    BY Zenon DEF Sound, Whole
  <2> QED
    BY Zenon, <2>1 DEF Own
<1>2. ASSUME NEW o \in s.ptrs, o \notin Own(s)
      PROVE  o \notin Released(s, T)
  <2>1. PICK t \in T : CloneOf(s, t)
    BY Zenon, <1>2 DEF Sound, Backed
  <2>2. o \in t.ptrs /\ (o[2] \in PerKey \/ o[2] = "enc_xtn_hdr") /\ s.n = t.n
    BY Zenon, <1>2, <2>1 DEF CloneOf
  <2> QED
    BY Zenon, <2>2 DEF Released
<1>3. Released(s, T) = Own(s)
  <2>1. Own(s) \subseteq Released(s, T)
    BY Zenon, <1>1 DEF Released, Own
  <2>2. Released(s, T) \subseteq s.ptrs
    BY Zenon DEF Released
  <2> QED
    BY Zenon, <1>2, <2>1, <2>2
<1>4. Own(s) \subseteq h
  BY Zenon DEF Own, Sound
<1>5. ASSUME NEW r \in T \cup L \cup N \cup K, r # s, NEW o \in r.ptrs, o \in Own(s)
      PROVE  FALSE
  <2>1. o[1] = s.gen /\ s.gen # r.gen
    BY Zenon, <1>5 DEF Own, Sound
  <2>2. o \notin Own(r)
    BY Zenon, <2>1 DEF Own
  <2>3. \A t \in T \cup N : o \notin t.ptrs
    <3>1. \A t \in T \cup N : t # s /\ t.ptrs = Own(t)
      BY Zenon DEF Sound, Whole
    <3> QED
      BY <2>1, <3>1 DEF Own, Sound
  <2>4. r \in L \cup K
    BY Zenon, <1>5, <2>3
  <2>5. PICK t \in T \cup N : CloneOf(r, t)
    BY Zenon, <2>2, <2>4, <1>5 DEF Sound, Backed
  <2> QED
    BY Zenon, <2>2, <2>3, <2>5, <1>5 DEF CloneOf
<1> QED
  BY Zenon, <1>3, <1>4, <1>5

(* Freeing it leaves the session sound, and leaves no object behind.       *)
StreamFreed(h, T, L, N, K, s) ==
    /\ Sound(h \ Released(s, T), T, L \ {s}, N, K)
    /\ Tight(h, T \cup L \cup N \cup K) => Tight(h \ Released(s, T), T \cup (L \ {s}) \cup N \cup K)
    /\ Released(s, T) \subseteq h
    /\ TheSession \notin Released(s, T)

LEMMA FreeStream ==
    ASSUME NEW h, NEW T, NEW L, NEW N, NEW K, Sound(h, T, L, N, K), NEW s \in L
    PROVE  StreamFreed(h, T, L, N, K, s)
<1>1. /\ Released(s, T) = Own(s)
      /\ Own(s) \subseteq h
      /\ \A r \in T \cup L \cup N \cup K : r # s => r.ptrs \cap Own(s) = {}
  BY ReleasedIsOwn
<1>2. T \cup (L \ {s}) \cup N \cup K \subseteq (T \cup L \cup N \cup K) \ {s}
  BY Zenon DEF Sound
<1>3. Sound(h \ Own(s), T, L \ {s}, N, K)
  <2>1. \A r \in T \cup (L \ {s}) \cup N \cup K : Made(r) /\ r.ptrs \subseteq h \ Own(s)
    BY Zenon, <1>1, <1>2 DEF Sound
  <2> QED
    BY Zenon, <1>2, <2>1 DEF Sound
<1>4. ASSUME Tight(h, T \cup L \cup N \cup K)
      PROVE  Tight(h \ Own(s), T \cup (L \ {s}) \cup N \cup K)
  <2> SUFFICES ASSUME NEW o \in h, o \notin Own(s), o # TheSession
               PROVE  \E r \in T \cup (L \ {s}) \cup N \cup K : o \in r.ptrs
    BY Zenon DEF Tight
  <2>1. PICK r \in T \cup L \cup N \cup K : o \in r.ptrs
    BY Zenon, <1>4 DEF Tight
  <2>2. CASE r # s
    BY Zenon, <2>1, <2>2
  <2>3. CASE r = s
    <3>1. PICK t \in T : CloneOf(s, t)
      BY Zenon, <2>1, <2>3 DEF Sound, Backed
    <3>2. o \in t.ptrs
      BY Zenon, <2>1, <2>3, <3>1 DEF CloneOf
    <3> QED
      BY Zenon, <3>2
  <2> QED
    BY Zenon, <2>2, <2>3
<1>5. TheSession \notin Own(s)
  BY Zenon DEF Own, TheSession, Sound, Made
<1> QED
  BY Zenon, <1>1, <1>3, <1>4, <1>5 DEF StreamFreed

(* A stream of a generation that no object has joins the list, with its    *)
(* own objects and perhaps its template's.                                 *)
LEMMA JoinStream ==
    ASSUME NEW h, NEW T, NEW L, NEW N, NEW K, Sound(h, T, L, N, K), NEW s,
           Made(s), \A o \in h : o[1] # s.gen, Backed(s, T)
    PROVE  /\ Sound(h \cup Own(s), T, L \cup {s}, N, K)
           /\ Tight(h, T \cup L \cup N \cup K)
                => Tight(h \cup Own(s), T \cup (L \cup {s}) \cup N \cup K)
<1>1. \A r \in T \cup L \cup N \cup K : r.gen # s.gen
  <2>1. \A r \in T \cup L \cup N \cup K : <<r.gen, "stream", 0>> \in h
    BY Zenon DEF Sound, Made
  <2> QED
    BY Zenon, <2>1
<1>2. s \notin T \cup L \cup N \cup K
  BY Zenon, <1>1
<1>3. s.ptrs \subseteq h \cup Own(s)
  BY Zenon DEF Backed, CloneOf, Sound
<1>4. Sound(h \cup Own(s), T, L \cup {s}, N, K)
  <2>1. \A r \in T \cup (L \cup {s}) \cup N \cup K : Made(r) /\ r.ptrs \subseteq h \cup Own(s)
    BY Zenon, <1>3 DEF Sound
  <2>2. \A r, t \in T \cup (L \cup {s}) \cup N \cup K : r.gen = t.gen => r = t
    BY Zenon, <1>1 DEF Sound
  <2>3. \A r \in L \cup {s} : Backed(r, T)
    BY Zenon DEF Sound
  <2> QED
    BY <1>2, <2>1, <2>2, <2>3 DEF Sound
<1>5. ASSUME Tight(h, T \cup L \cup N \cup K)
      PROVE  Tight(h \cup Own(s), T \cup (L \cup {s}) \cup N \cup K)
  BY Zenon, <1>5 DEF Tight, Own
<1> QED
  BY Zenon, <1>4, <1>5

(* So does a template, where there is none.                                *)
LEMMA JoinTemplate ==
    ASSUME NEW h, NEW L, NEW N, NEW K, Sound(h, {}, L, N, K), NEW s,
           Made(s), \A o \in h : o[1] # s.gen, Whole(s)
    PROVE  /\ Sound(h \cup s.ptrs, {s}, L, N, K)
           /\ Tight(h, {} \cup L \cup N \cup K) => Tight(h \cup s.ptrs, {s} \cup L \cup N \cup K)
<1>1. \A r \in L \cup N \cup K : r.gen # s.gen
  <2>1. \A r \in L \cup N \cup K : <<r.gen, "stream", 0>> \in h
    BY Zenon DEF Sound, Made
  <2> QED
    BY Zenon, <2>1
<1>2. s \notin L \cup N \cup K
  BY Zenon, <1>1
<1>3. Sound(h \cup s.ptrs, {s}, L, N, K)
  <2>1. \A r \in {s} \cup L \cup N \cup K : Made(r) /\ r.ptrs \subseteq h \cup s.ptrs
    BY Zenon DEF Sound
  <2>2. \A r, t \in {s} \cup L \cup N \cup K : r.gen = t.gen => r = t
    BY Zenon, <1>1 DEF Sound
  <2>3. \A r \in L : Backed(r, {s})
    BY Zenon DEF Sound, Backed
  <2> QED
    BY ZenonT(30), <1>2, <2>1, <2>2, <2>3 DEF Sound
<1> QED
  BY Zenon, <1>3 DEF Tight

(* A template that no stream shares with is freed whole.                   *)
TemplateFreed(h, T, L, N, K, t) ==
    /\ Released(t, {}) = t.ptrs
    /\ t.ptrs \subseteq h
    /\ Sound(h \ t.ptrs, {}, L, N, K)
    /\ Tight(h, T \cup L \cup N \cup K) => Tight(h \ t.ptrs, {} \cup L \cup N \cup K)
    /\ TheSession \notin t.ptrs

LEMMA FreeTemplate ==
    ASSUME NEW h, NEW T, NEW L, NEW N, NEW K, Sound(h, T, L, N, K), NEW t \in T,
           \A s \in L : s.ptrs = Own(s)
    PROVE  TemplateFreed(h, T, L, N, K, t)
<1>1. Released(t, {}) = t.ptrs
  BY Zenon DEF Released
<1>2. t.ptrs \subseteq h /\ t.ptrs = Own(t)
  BY Zenon DEF Sound, Whole
<1>3. T = {t} /\ t \notin L \cup N \cup K
  BY Zenon DEF Sound
<1>4. ASSUME NEW r \in L \cup N \cup K, NEW o \in r.ptrs, o \in t.ptrs
      PROVE  FALSE
  <2>1. o[1] = t.gen /\ r.gen # t.gen
    BY Zenon, <1>2, <1>3, <1>4 DEF Own, Sound
  <2>2. o \notin Own(r)
    BY Zenon, <2>1 DEF Own
  <2>3. PICK n \in N : CloneOf(r, n)
    BY Zenon, <2>2, <1>4 DEF Sound, Backed, Whole
  <2>4. o \in n.ptrs
    BY Zenon, <2>2, <2>3, <1>4 DEF CloneOf
  <2>5. n.ptrs = Own(n) /\ n.gen # t.gen
    BY Zenon, <1>3 DEF Sound, Whole
  <2> QED
    BY Zenon, <2>1, <2>4, <2>5 DEF Own
<1>5. Sound(h \ t.ptrs, {}, L, N, K)
  <2>1. \A r \in {} \cup L \cup N \cup K : Made(r) /\ r.ptrs \subseteq h \ t.ptrs
    BY Zenon, <1>4 DEF Sound
  <2>2. \A r \in L : Backed(r, {})
    BY Zenon DEF Backed
  <2>3. \A r, s \in {} \cup L \cup N \cup K : r.gen = s.gen => r = s
    BY Zenon DEF Sound
  <2>4. \A s \in {} \cup N : Whole(s)
    BY Zenon DEF Sound
  <2> QED
    BY Zenon, <2>1, <2>2, <2>3, <2>4 DEF Sound
<1>6. Tight(h, T \cup L \cup N \cup K) => Tight(h \ t.ptrs, {} \cup L \cup N \cup K)
  BY Zenon, <1>3 DEF Tight
<1>7. TheSession \notin t.ptrs
  BY Zenon, <1>2 DEF Own, TheSession, Sound, Made
<1> QED
  BY Zenon, <1>1, <1>2, <1>5, <1>6, <1>7 DEF TemplateFreed

----------------------------------------------------------------------------
(* The lists.                                                              *)
LEMMA SeqRemove ==
    ASSUME NEW S, NEW l \in Seq(S), Distinct(l), NEW i \in 1..Len(l)
    PROVE  /\ Without(l, i) \in Seq(S)
           /\ InList(Without(l, i)) = InList(l) \ {l[i]}
           /\ Distinct(Without(l, i))
           /\ l[i] \in InList(l)
<1> DEFINE r == Without(l, i)
<1>1. /\ r \in Seq(S)
      /\ Len(r) = Len(l) - 1
      /\ \A j \in 1..Len(r) : r[j] = IF j < i THEN l[j] ELSE l[j + 1]
  <2> DEFINE a == SubSeq(l, 1, i - 1)
             b == SubSeq(l, i + 1, Len(l))
  <2>1. a \in Seq(S) /\ Len(a) = i - 1 /\ \A j \in 1..(i - 1) : a[j] = l[j]
    OBVIOUS
  <2>2. b \in Seq(S) /\ Len(b) = Len(l) - i /\ \A j \in 1..(Len(l) - i) : b[j] = l[i + j]
    OBVIOUS
  <2>3. r = a \o b
    BY Zenon DEF Without
  <2> HIDE DEF a, b, r
  <2>4. r \in Seq(S) /\ Len(r) = Len(l) - 1
    BY <2>1, <2>2, <2>3
  <2>5. ASSUME NEW j \in 1..Len(r), j < i
        PROVE  r[j] = l[j]
    BY <2>1, <2>2, <2>3, <2>4, <2>5
  <2>6. ASSUME NEW j \in 1..Len(r), ~ j < i
        PROVE  r[j] = l[j + 1]
    <3>1. j - (i - 1) \in 1..(Len(l) - i) /\ i + (j - (i - 1)) = j + 1
      BY <2>4, <2>6
    <3>2. r[j] = b[j - (i - 1)]
      BY <2>1, <2>2, <2>3, <2>4, <2>6
    <3> QED
      BY Zenon, <2>2, <3>1, <3>2
  <2> QED
    BY Zenon, <2>4, <2>5, <2>6
<1> HIDE DEF r
<1> DEFINE at(j) == IF j < i THEN j ELSE j + 1
<1>5. /\ \A j \in 1..Len(r) : at(j) \in 1..Len(l) /\ at(j) # i /\ r[j] = l[at(j)]
      /\ \A j, m \in 1..Len(r) : at(j) = at(m) => j = m
  BY <1>1
<1> HIDE DEF at
<1>2. Distinct(r)
  BY Zenon, <1>5 DEF Distinct
<1>3. InList(r) \subseteq InList(l) \ {l[i]}
  <2>1. \A j \in 1..Len(r) : r[j] # l[i]
    BY Zenon, <1>5 DEF Distinct
  <2> QED
    BY Zenon, <1>5, <2>1 DEF InList
<1>4. ASSUME NEW x \in InList(l) \ {l[i]}
      PROVE  x \in InList(r)
  <2>1. PICK j \in 1..Len(l) : x = l[j] /\ j # i
    BY Zenon DEF InList
  <2>2. CASE j < i
    <3>1. j \in 1..Len(r) /\ r[j] = x
      BY <1>1, <2>1, <2>2
    <3> QED
      BY Zenon, <3>1 DEF InList
  <2>3. CASE j > i
    <3>1. j - 1 \in 1..Len(r) /\ r[j - 1] = x
      BY <1>1, <2>1, <2>3
    <3> QED
      BY Zenon, <3>1 DEF InList
  <2> QED
    BY <2>1, <2>2, <2>3
<1> QED
  BY Zenon, <1>1, <1>2, <1>3, <1>4 DEF r, InList

LEMMA SeqCons ==
    ASSUME NEW S, NEW l \in Seq(S), Distinct(l), NEW x \in S, x \notin InList(l)
    PROVE  /\ <<x>> \o l \in Seq(S)
           /\ InList(<<x>> \o l) = InList(l) \cup {x}
           /\ Distinct(<<x>> \o l)
<1> DEFINE r == <<x>> \o l
<1>1. /\ r \in Seq(S)
      /\ Len(r) = Len(l) + 1
      /\ \A j \in 1..Len(r) : r[j] = IF j = 1 THEN x ELSE l[j - 1]
  OBVIOUS
<1> HIDE DEF r
<1>2. Distinct(r)
  <2>1. SUFFICES ASSUME NEW a \in 1..Len(r), NEW b \in 1..Len(r), r[a] = r[b]
                 PROVE  a = b
    BY Zenon DEF Distinct
  <2>2. \A j \in 1..Len(l) : l[j] # x
    BY Zenon DEF InList
  <2>3. a = 1 <=> b = 1
    BY <1>1, <2>1, <2>2
  <2>4. ASSUME a # 1 PROVE a = b
    <3>1. a - 1 \in 1..Len(l) /\ b - 1 \in 1..Len(l)
      BY <1>1, <2>3, <2>4
    <3>2. l[a - 1] = l[b - 1]
      BY Zenon, <1>1, <2>1, <2>3, <2>4
    <3>3. a - 1 = b - 1
      BY Zenon, <3>1, <3>2 DEF Distinct
    <3> QED
      BY <3>3
  <2> QED
    BY Zenon, <2>3, <2>4
<1>3. ASSUME NEW y \in InList(r), y # x
      PROVE  y \in InList(l)
  <2>1. PICK j \in 1..Len(r) : y = r[j]
    BY Zenon DEF InList
  <2>2. j - 1 \in 1..Len(l) /\ y = l[j - 1]
    BY <1>1, <1>3, <2>1
  <2> QED
    BY Zenon, <2>2 DEF InList
<1>4. ASSUME NEW j \in 1..Len(l)
      PROVE  l[j] \in InList(r)
  <2>1. j + 1 \in 1..Len(r) /\ r[j + 1] = l[j]
    BY <1>1
  <2> QED
    BY Zenon, <2>1 DEF InList
<1>5. x \in InList(r)
  <2>1. 1 \in 1..Len(r) /\ r[1] = x
    BY <1>1
  <2> QED
    BY Zenon, <2>1 DEF InList
<1> QED
  BY Zenon, <1>1, <1>2, <1>3, <1>4, <1>5 DEF r, InList

LEMMA SeqTail ==
    ASSUME NEW S, NEW l \in Seq(S), Distinct(l), l # <<>>
    PROVE  /\ Tail(l) \in Seq(S)
           /\ Head(l) \in InList(l)
           /\ InList(Tail(l)) = InList(l) \ {Head(l)}
           /\ Distinct(Tail(l))
<1> DEFINE r == Tail(l)
<1>1. /\ r \in Seq(S)
      /\ Len(l) > 0 /\ Head(l) = l[1]
      /\ Len(r) = Len(l) - 1
      /\ \A j \in 1..Len(r) : r[j] = l[j + 1]
  OBVIOUS
<1> HIDE DEF r
<1>2. Distinct(r)
  BY <1>1 DEF Distinct
<1>3. InList(r) \subseteq InList(l) \ {l[1]}
  BY <1>1 DEF Distinct, InList
<1>4. ASSUME NEW x \in InList(l) \ {l[1]}
      PROVE  x \in InList(r)
  <2>1. PICK j \in 1..Len(l) : x = l[j] /\ j # 1
    BY Zenon DEF InList
  <2>2. j - 1 \in 1..Len(r) /\ r[j - 1] = x
    BY <1>1, <2>1
  <2> QED
    BY Zenon, <2>2 DEF InList
<1>5. InList(r) = InList(l) \ {Head(l)} /\ Head(l) \in InList(l)
  <2>1. Head(l) \in InList(l)
    BY <1>1 DEF InList
  <2> QED
    BY Zenon, <1>1, <1>3, <1>4, <2>1
<1> QED
  BY Zenon, <1>1, <1>2, <1>5 DEF r

LEMMA SeqJoin ==
    ASSUME NEW S, NEW k \in Seq(S), NEW l \in Seq(S), Distinct(k), Distinct(l), InList(k) \cap InList(l) = {}
    PROVE  /\ k \o l \in Seq(S)
           /\ InList(k \o l) = InList(k) \cup InList(l)
           /\ Distinct(k \o l)
<1> DEFINE r == k \o l
<1>1. /\ r \in Seq(S)
      /\ Len(r) = Len(k) + Len(l)
      /\ \A j \in 1..Len(r) : r[j] = IF j <= Len(k) THEN k[j] ELSE l[j - Len(k)]
  OBVIOUS
<1> HIDE DEF r
<1>0. Len(k) \in Nat /\ Len(l) \in Nat
  OBVIOUS
<1>2. ASSUME NEW i \in 1..Len(r), NEW j \in 1..Len(r), r[i] = r[j], i <= Len(k), j > Len(k)
      PROVE  FALSE
  <2>1. r[i] \in InList(k)
    BY <1>0, <1>1, <1>2 DEF InList
  <2>2. j - Len(k) \in 1..Len(l) /\ r[j] = l[j - Len(k)]
    BY <1>0, <1>1, <1>2
  <2> QED
    BY Zenon, <1>2, <2>1, <2>2 DEF InList
<1>6. Distinct(r)
  <2> SUFFICES ASSUME NEW i \in 1..Len(r), NEW j \in 1..Len(r), r[i] = r[j]
               PROVE  i = j
    BY Zenon DEF Distinct
  <2>1. CASE i <= Len(k) /\ j <= Len(k)
    BY <1>0, <1>1, <2>1 DEF Distinct
  <2>2. CASE i > Len(k) /\ j > Len(k)
    <3>1. i - Len(k) \in 1..Len(l) /\ j - Len(k) \in 1..Len(l) /\ l[i - Len(k)] = l[j - Len(k)]
      BY <1>0, <1>1, <2>2
    <3>2. i - Len(k) = j - Len(k)
      BY Zenon, <3>1 DEF Distinct
    <3> QED
      BY <1>0, <3>2
  <2> QED
    BY <1>0, <1>2, <2>1, <2>2
<1>3. ASSUME NEW j \in 1..Len(r)
      PROVE  r[j] \in InList(k) \cup InList(l)
  <2>1. CASE j <= Len(k)
    BY <1>0, <1>1, <2>1 DEF InList
  <2>2. CASE j > Len(k)
    <3>1. j - Len(k) \in 1..Len(l) /\ r[j] = l[j - Len(k)]
      BY <1>0, <1>1, <2>2
    <3> QED
      BY Zenon, <3>1 DEF InList
  <2> QED
    BY <1>0, <2>1, <2>2
<1>4. ASSUME NEW j \in 1..Len(k)
      PROVE  k[j] \in InList(r)
  <2>1. j \in 1..Len(r) /\ r[j] = k[j]
    BY <1>0, <1>1
  <2> QED
    BY Zenon, <2>1 DEF InList
<1>5. ASSUME NEW j \in 1..Len(l)
      PROVE  l[j] \in InList(r)
  <2>1. j + Len(k) \in 1..Len(r) /\ r[j + Len(k)] = l[j]
    <3>1. /\ j + Len(k) \in 1..Len(r)
          /\ ~ j + Len(k) <= Len(k)
          /\ (j + Len(k)) - Len(k) = j
      BY <1>0, <1>1
    <3>2. r[j + Len(k)] = l[(j + Len(k)) - Len(k)]
      BY Zenon, <1>1, <3>1
    <3> QED
      BY Zenon, <3>1, <3>2
  <2> QED
    BY Zenon, <2>1 DEF InList
<1>7. InList(r) \subseteq InList(k) \cup InList(l)
  BY Zenon, <1>3 DEF InList
<1>8. InList(k) \cup InList(l) \subseteq InList(r)
  <2>1. \A j \in 1..Len(k) : k[j] \in InList(r)
    BY Zenon, <1>4
  <2>2. \A j \in 1..Len(l) : l[j] \in InList(r)
    BY Zenon, <1>5
  <2> QED
    BY <2>1, <2>2, Zenon DEF InList
<1> QED
  BY Zenon, <1>1, <1>6, <1>7, <1>8 DEF r

LEMMA SeqReplace ==
    ASSUME NEW S, NEW l \in Seq(S), Distinct(l), NEW i \in 1..Len(l), NEW x \in S,
           x \notin InList(l) \ {l[i]}
    PROVE  /\ [l EXCEPT ![i] = x] \in Seq(S)
           /\ InList([l EXCEPT ![i] = x]) = (InList(l) \ {l[i]}) \cup {x}
           /\ Distinct([l EXCEPT ![i] = x])
<1> DEFINE r == [l EXCEPT ![i] = x]
<1>1. /\ r \in Seq(S)
      /\ Len(r) = Len(l)
      /\ \A j \in 1..Len(l) : r[j] = IF j = i THEN x ELSE l[j]
  OBVIOUS
<1> HIDE DEF r
<1>2. Distinct(r)
  BY <1>1 DEF Distinct, InList
<1>3. InList(r) \subseteq (InList(l) \ {l[i]}) \cup {x}
  BY <1>1 DEF InList, Distinct
<1>4. ASSUME NEW y \in InList(l) \ {l[i]}
      PROVE  y \in InList(r)
  <2>1. PICK j \in 1..Len(l) : y = l[j] /\ j # i
    BY Zenon DEF InList
  <2> QED
    BY Zenon, <1>1, <2>1 DEF InList
<1>5. x \in InList(r)
  BY Zenon, <1>1 DEF InList
<1> QED
  BY Zenon, <1>1, <1>2, <1>3, <1>4, <1>5 DEF r

LEMMA SeqRange ==
    ASSUME NEW S, NEW l \in Seq(S)
    PROVE  l \in Seq(InList(l))
BY DEF InList

LEMMA SeqSubset ==
    ASSUME NEW A, NEW B, A \subseteq B, NEW l \in Seq(A)
    PROVE  l \in Seq(B)
OBVIOUS

(* The same about lists of distinct streams.                               *)
LEMMA ListRemove ==
    ASSUME NEW l, IsList(l), NEW i \in 1..Len(l)
    PROVE  /\ IsList(Without(l, i))
           /\ InList(Without(l, i)) = InList(l) \ {l[i]}
           /\ l[i] \in InList(l)
<1>1. /\ Without(l, i) \in Seq(InList(l))
      /\ InList(Without(l, i)) = InList(l) \ {l[i]}
      /\ Distinct(Without(l, i))
      /\ l[i] \in InList(l)
  BY Zenon, SeqRemove DEF IsList
<1>2. Without(l, i) \in Seq(InList(Without(l, i)))
  BY Zenon, <1>1, SeqRange
<1> QED
  BY Zenon, <1>1, <1>2 DEF IsList

LEMMA ListCons ==
    ASSUME NEW l, IsList(l), NEW x, x \notin InList(l)
    PROVE  /\ IsList(<<x>> \o l)
           /\ InList(<<x>> \o l) = InList(l) \cup {x}
<1> DEFINE S == InList(l) \cup {x}
<1>1. l \in Seq(S) /\ x \in S
  BY Zenon, SeqSubset DEF IsList
<1>2. /\ <<x>> \o l \in Seq(S)
      /\ InList(<<x>> \o l) = InList(l) \cup {x}
      /\ Distinct(<<x>> \o l)
  BY Zenon, <1>1, SeqCons DEF IsList
<1>3. <<x>> \o l \in Seq(InList(<<x>> \o l))
  BY Zenon, <1>2, SeqRange
<1> QED
  BY Zenon, <1>2, <1>3 DEF IsList

LEMMA ListTail ==
    ASSUME NEW l, IsList(l), l # <<>>
    PROVE  /\ IsList(Tail(l))
           /\ InList(Tail(l)) = InList(l) \ {Head(l)}
           /\ Head(l) \in InList(l)
<1> DEFINE S == InList(l)
<1>2. /\ Tail(l) \in Seq(S)
      /\ InList(Tail(l)) = InList(l) \ {Head(l)}
      /\ Distinct(Tail(l))
      /\ Head(l) \in InList(l)
  BY Zenon, SeqTail DEF IsList
<1>3. Tail(l) \in Seq(InList(Tail(l)))
  BY Zenon, <1>2, SeqRange
<1> QED
  BY Zenon, <1>2, <1>3 DEF IsList

LEMMA ListJoin ==
    ASSUME NEW k, NEW l, IsList(k), IsList(l), InList(k) \cap InList(l) = {}
    PROVE  /\ IsList(k \o l)
           /\ InList(k \o l) = InList(k) \cup InList(l)
<1> DEFINE S == InList(k) \cup InList(l)
<1>1. k \in Seq(S) /\ l \in Seq(S)
  BY Zenon, SeqSubset DEF IsList
<1>2. /\ k \o l \in Seq(S)
      /\ InList(k \o l) = InList(k) \cup InList(l)
      /\ Distinct(k \o l)
  BY Zenon, <1>1, SeqJoin DEF IsList
<1>3. k \o l \in Seq(InList(k \o l))
  BY Zenon, <1>2, SeqRange
<1> QED
  BY Zenon, <1>2, <1>3 DEF IsList

Replaced(l, i, x) ==
    LET r == [l EXCEPT ![i] = x] IN IsList(r) /\ InList(r) = (InList(l) \ {l[i]}) \cup {x}

LEMMA ListReplace ==
    ASSUME NEW l, IsList(l), NEW i \in 1..Len(l), NEW x, x \notin InList(l) \ {l[i]}
    PROVE  Replaced(l, i, x)
<1> DEFINE S == InList(l) \cup {x}
<1>1. l \in Seq(S) /\ x \in S
  BY Zenon, SeqSubset DEF IsList
<1>2. /\ [l EXCEPT ![i] = x] \in Seq(S)
      /\ InList([l EXCEPT ![i] = x]) = (InList(l) \ {l[i]}) \cup {x}
      /\ Distinct([l EXCEPT ![i] = x])
  BY Zenon, <1>1, SeqReplace DEF IsList
<1>3. [l EXCEPT ![i] = x] \in Seq(InList([l EXCEPT ![i] = x]))
  BY Zenon, <1>2, SeqRange
<1> QED
  BY Zenon, <1>2, <1>3 DEF IsList, Replaced

----------------------------------------------------------------------------
(* The operations.                                                         *)
Fine(m, g) == m.bad = FALSE /\ g \in Nat \ {0} /\ \A o \in m.heap : o[1] # g

Dealloced(d, m, s, T) == d.heap = m.heap \ Released(s, T) /\ d.bad = FALSE

LEMMA DeallocedLemma ==
    ASSUME NEW m, m.bad = FALSE, NEW s, NEW T, Released(s, T) \subseteq m.heap
    PROVE  Dealloced(srtp_stream_dealloc(m, s, T), m, s, T)
BY Zenon DEF srtp_stream_dealloc, Dealloced

LEMMA WantedLemma ==
    ASSUME NEW p \in Policy, NEW g \in Nat, srtp_validate_policy_master_keys(p)
    PROVE  /\ \A o \in Wanted(p, g) : o[1] = g
           /\ <<g, "stream", 0>> \in Wanted(p, g)
           /\ <<g, "rtp_auth", 1>> \in Wanted(p, g)
           /\ p.num_master_keys \in 1..MaxKeys
<1>1. p.num_master_keys \in 1..MaxKeys
  BY SessionAssumption DEF Policy, srtp_validate_policy_master_keys
<1>2. \A o \in Wanted(p, g) : o[1] = g
  BY DEF Wanted
<1>3. <<g, "stream", 0>> \in Wanted(p, g)
  BY DEF Wanted
<1>4. <<g, "rtp_auth", 1>> \in Wanted(p, g)
  BY <1>1 DEF Wanted
<1> QED
  BY Zenon, <1>1, <1>2, <1>3, <1>4

(* An allocation that fails half-way leaves the memory as it was.          *)
Allocated(a, m, p, g) ==
    /\ a.ok => a.s = [Blank(g, p) EXCEPT !.ptrs = Wanted(p, g)] /\ a.m = malloc(m, Wanted(p, g))
    /\ ~ a.ok => a.m.heap = m.heap /\ a.m.bad = FALSE

LEMMA AllocLemma ==
    ASSUME NEW p \in Policy, srtp_validate_policy_master_keys(p), NEW m, NEW g, Fine(m, g), NEW k
    PROVE  Allocated(srtp_stream_alloc(m, p, g, k), m, p, g)
<1> DEFINE q == {o \in Wanted(p, g) : k = Never \/ Turn(p, o) < k}
           s == [Blank(g, p) EXCEPT !.ptrs = q]
           got == malloc(m, q)
           a == srtp_stream_alloc(m, p, g, k)
<1>1. s.ptrs = q
  BY Zenon DEF Blank
<1>2. a = [ok |-> q = Wanted(p, g), s |-> s, m |-> IF q = Wanted(p, g) THEN got ELSE srtp_stream_dealloc(got, s, {})]
  BY <1>1 DEF srtp_stream_alloc
<1>3. \A o \in q : o[1] = g
  BY Zenon, WantedLemma DEF Fine
<1> HIDE DEF q, s, a
<1>4. LET d == srtp_stream_dealloc(got, s, {}) IN d.heap = m.heap /\ d.bad = FALSE
  <2>1. Released(s, {}) = q
    BY Zenon, <1>1 DEF Released
  <2>2. m.heap \cap q = {}
    BY Zenon, <1>3 DEF Fine
  <2>3. got.heap = m.heap \cup q /\ got.bad = FALSE
    BY Zenon DEF Fine, malloc
  <2> QED
    BY Zenon, <2>1, <2>2, <2>3 DEF srtp_stream_dealloc
<1>5. CASE q = Wanted(p, g)
  <2>1. a.ok /\ a.s = s /\ a.m = got
    BY Zenon, <1>2, <1>5
  <2> QED
    BY <1>5, <2>1, Zenon DEF a, s, Allocated
<1>6. CASE q # Wanted(p, g)
  <2>1. ~ a.ok /\ a.m = srtp_stream_dealloc(got, s, {})
    BY Zenon, <1>2, <1>6
  <2> QED
    BY <1>4, <2>1, Zenon DEF a, Allocated
<1> QED
  BY Zenon, <1>5, <1>6

(* A stream that was allocated and initialised owns all it points to; one  *)
(* whose initialisation failed gives back all but the KDF's cipher.        *)
Initialised(b, u, m, p, g) ==
    /\ b.s = [Blank(g, p) EXCEPT !.ptrs = b.s.ptrs]
    /\ b.s.gen = g
    /\ b.s.ptrs = Own(b.s)
    /\ Wanted(p, g) \subseteq b.s.ptrs
    /\ b.ok => b.m.heap = m.heap \cup b.s.ptrs /\ ~ b.spilled
    /\ b.m.bad = FALSE
    /\ b.ok \in BOOLEAN /\ b.spilled \in BOOLEAN
    /\ m.heap \subseteq b.m.heap
    /\ \A o \in b.m.heap \ m.heap : o[1] = g
    /\ u.bad = FALSE
    /\ m.heap \subseteq u.heap
    /\ ~ b.spilled => u.heap = m.heap

LEMMA InitLemma ==
    ASSUME NEW p \in Policy, srtp_validate_policy_master_keys(p), NEW m, NEW g, Fine(m, g), NEW f \in Nat,
           NEW a, a.s = [Blank(g, p) EXCEPT !.ptrs = Wanted(p, g)], a.m = malloc(m, Wanted(p, g)),
           NEW b, b = srtp_stream_init(a.m, a.s, p, f),
           NEW u, u = srtp_stream_dealloc(b.m, b.s, {})
    PROVE  Initialised(b, u, m, p, g)
<1> DEFINE w == Wanted(p, g)
           s == [Blank(g, p) EXCEPT !.ptrs = w]
           mm == malloc(m, w)
           kept == MkiIds(p, g, f) \cup Bitmask(g, f)
           kdf == KdfCipher(g, f)
           q == w \cup kept
<1>1. s.ptrs = w /\ s.gen = g
  BY Zenon DEF Blank
<1>2. mm.heap = m.heap \cup w /\ mm.bad = FALSE
  BY Zenon DEF Fine, malloc
<1>3. b = [ok |-> f = Never, spilled |-> kdf # {}, s |-> [s EXCEPT !.ptrs = @ \cup kept],
           m |-> malloc(mm, kept \cup kdf)]
  BY <1>1, Zenon DEF srtp_stream_init
<1>4. \A o \in w : o[1] = g
  BY Zenon, WantedLemma DEF Fine
<1>5. \A o \in kept : o[1] = g
  BY DEF MkiIds, Bitmask
<1>6. \A o \in kdf : o[1] = g
  BY DEF KdfCipher
<1>7. f = Never => kdf = {}
  BY DEF Never, KdfCipher
<1> HIDE DEF w, s, mm, kept, kdf
<1>8. b.s = [s EXCEPT !.ptrs = @ \cup kept] /\ b.m = malloc(mm, kept \cup kdf)
  BY ONLY Zenon, <1>3
<1>9. (b.ok <=> f = Never) /\ (b.spilled <=> kdf # {}) /\ b.ok \in BOOLEAN /\ b.spilled \in BOOLEAN
  BY ONLY <1>3, Zenon
<1>10. b.s = [Blank(g, p) EXCEPT !.ptrs = q] /\ b.s.ptrs = q /\ b.s.gen = g
  BY Zenon, <1>1, <1>8 DEF Blank, s
<1>11. b.m.heap = m.heap \cup q \cup kdf /\ b.m.bad = FALSE
  <2>1. b.m = [heap |-> mm.heap \cup (kept \cup kdf), bad |-> mm.bad]
    BY Zenon, <1>8 DEF malloc
  <2>2. b.m.heap = mm.heap \cup (kept \cup kdf) /\ b.m.bad = mm.bad
    BY <2>1
  <2> QED
    BY Zenon, <1>2, <2>2
<1>12. q = Own(b.s)
  <2>1. \A o \in q : o[1] = b.s.gen
    BY Zenon, <1>4, <1>5, <1>10
  <2> QED
    BY <1>10, <2>1, Zenon DEF Own
<1>13. Released(b.s, {}) = q
  BY Zenon, <1>10 DEF Released
<1>14. u.heap = (m.heap \cup q \cup kdf) \ q /\ u.bad = FALSE
  BY Zenon, <1>11, <1>13 DEF srtp_stream_dealloc
<1>15. m.heap \cap q = {}
  BY Zenon, <1>4, <1>5 DEF Fine
<1>16. /\ b.ok => b.m.heap = m.heap \cup b.s.ptrs /\ ~ b.spilled
       /\ m.heap \subseteq b.m.heap
       /\ \A o \in b.m.heap \ m.heap : o[1] = g
  BY Zenon, <1>4, <1>5, <1>6, <1>7, <1>9, <1>10, <1>11
<1>17. /\ m.heap \subseteq u.heap
       /\ ~ b.spilled => u.heap = m.heap
  BY Zenon, <1>6, <1>9, <1>14, <1>15
<1> QED
  BY <1>9, <1>10, <1>11, <1>12, <1>14, <1>16, <1>17, Zenon DEF w, Initialised

----------------------------------------------------------------------------
(* A session whose memory is in order: T and l are the template and the    *)
(* list, N and k those an update is building.                              *)
Healthy(m, T, l, N, k, sp) ==
    /\ Sound(m.heap, T, InList(l), N, InList(k))
    /\ IsList(l) /\ IsList(k)
    /\ \A s \in T \cup InList(l) \cup N \cup InList(k) : IsStream(s)
    /\ m.bad = FALSE
    /\ sp \in BOOLEAN
    /\ sp \/ Tight(m.heap, T \cup InList(l) \cup N \cup InList(k))

LEMMA HealthySwap ==
    ASSUME NEW m, NEW T, NEW l, NEW N, NEW k, NEW sp, Healthy(m, T, l, N, k, sp)
    PROVE  Healthy(m, N, k, T, l, sp)
<1>1. T \cup InList(l) \cup N \cup InList(k) = N \cup InList(k) \cup T \cup InList(l)
  BY Zenon
<1>2. Sound(m.heap, N, InList(k), T, InList(l))
  BY Zenon, SoundSwap DEF Healthy
<1> QED
  BY <1>1, <1>2, Zenon DEF Healthy

(* Only the objects and the flag of a memory matter.                       *)
LEMMA HealthyMemory ==
    ASSUME NEW m, NEW T, NEW l, NEW N, NEW k, NEW sp, Healthy(m, T, l, N, k, sp),
           NEW u, u.heap = m.heap, u.bad = FALSE
    PROVE  Healthy(u, T, l, N, k, sp)
BY Zenon DEF Healthy

LEMMA FreeLemma ==
    ASSUME NEW m, NEW T, NEW l, NEW N, NEW k, NEW sp, Healthy(m, T, l, N, k, sp),
           NEW s \in InList(l), NEW r, IsList(r), InList(r) = InList(l) \ {s}
    PROVE  LET d == srtp_stream_dealloc(m, s, T)
           IN /\ Healthy(d, T, r, N, k, sp)
              /\ TheSession \in d.heap <=> TheSession \in m.heap
<1> DEFINE d == srtp_stream_dealloc(m, s, T)
<1>1. /\ Sound(m.heap \ Released(s, T), T, InList(r), N, InList(k))
      /\ Tight(m.heap, T \cup InList(l) \cup N \cup InList(k))
            => Tight(m.heap \ Released(s, T), T \cup InList(r) \cup N \cup InList(k))
      /\ Released(s, T) \subseteq m.heap
      /\ TheSession \notin Released(s, T)
  <2>1. Sound(m.heap, T, InList(l), N, InList(k))
    BY Zenon DEF Healthy
  <2>2. StreamFreed(m.heap, T, InList(l), N, InList(k), s)
    BY Zenon, <2>1, FreeStream
  <2> QED
    BY <2>2, Zenon DEF StreamFreed
<1>2. d.heap = m.heap \ Released(s, T) /\ d.bad = FALSE
  <2>1. m.bad = FALSE
    BY Zenon DEF Healthy
  <2> QED
    BY Zenon, <1>1, <2>1 DEF srtp_stream_dealloc
<1>3. \A x \in T \cup InList(r) \cup N \cup InList(k) : IsStream(x)
  BY Zenon DEF Healthy
<1> HIDE DEF d
<1>4. Healthy(d, T, r, N, k, sp)
  BY <1>1, <1>2, <1>3, Zenon DEF Healthy
<1>5. TheSession \in d.heap <=> TheSession \in m.heap
  BY Zenon, <1>1, <1>2
<1> QED
  BY Zenon, <1>4, <1>5 DEF d

LEMMA JoinLemma ==
    ASSUME NEW m, NEW T, NEW l, NEW N, NEW k, NEW sp, Healthy(m, T, l, N, k, sp),
           NEW s, IsStream(s), Made(s), Backed(s, T), \A o \in m.heap : o[1] # s.gen,
           NEW u, u.heap = m.heap \cup Own(s), u.bad = FALSE
    PROVE  /\ Healthy(u, T, <<s>> \o l, N, k, sp)
           /\ s \notin InList(l)
<1>1. /\ Sound(m.heap \cup Own(s), T, InList(l) \cup {s}, N, InList(k))
      /\ Tight(m.heap, T \cup InList(l) \cup N \cup InList(k))
            => Tight(m.heap \cup Own(s), T \cup (InList(l) \cup {s}) \cup N \cup InList(k))
  BY Zenon, JoinStream DEF Healthy
<1>2. s \notin InList(l)
  <2>1. \A r \in InList(l) : <<r.gen, "stream", 0>> \in m.heap
    BY Zenon DEF Healthy, Sound, Made
  <2> QED
    BY Zenon, <2>1
<1>3. IsList(<<s>> \o l) /\ InList(<<s>> \o l) = InList(l) \cup {s}
  BY Zenon, <1>2, ListCons DEF Healthy
<1>4. \A x \in T \cup (InList(l) \cup {s}) \cup N \cup InList(k) : IsStream(x)
  BY Zenon DEF Healthy
<1> QED
  BY <1>1, <1>2, <1>3, <1>4, Zenon DEF Healthy

(* A stream whose numbers or direction change holds what it held.          *)
SameMemory(x, s) == x.gen = s.gen /\ x.ptrs = s.ptrs /\ x.n = s.n

LEMMA RetouchStream ==
    ASSUME NEW h, NEW T, NEW L, NEW N, NEW K, Sound(h, T, L, N, K), NEW s \in L, NEW x, SameMemory(x, s)
    PROVE  /\ Sound(h, T, (L \ {s}) \cup {x}, N, K)
           /\ Tight(h, T \cup L \cup N \cup K) => Tight(h, T \cup ((L \ {s}) \cup {x}) \cup N \cup K)
           /\ x \notin L \ {s}
<1>1. ASSUME NEW r \in T \cup L \cup N \cup K, r # s
      PROVE  r.gen # x.gen /\ r # x
  BY Zenon, <1>1 DEF Sound, SameMemory
<1>2. T \cup (L \ {s}) \cup N \cup K \subseteq (T \cup L \cup N \cup K) \ {s}
  BY Zenon DEF Sound
<1>3. Made(x) /\ x.ptrs \subseteq h
  <2>1. Made(s) /\ s.ptrs \subseteq h
    BY Zenon DEF Sound
  <2> QED
    BY Zenon, <2>1 DEF SameMemory, Made
<1>4. Backed(x, T)
  <2>1. Backed(s, T) /\ Own(x) = Own(s)
    BY Zenon DEF Sound, SameMemory, Own
  <2> QED
    BY Zenon, <2>1 DEF SameMemory, Backed, CloneOf
<1>5. Sound(h, T, (L \ {s}) \cup {x}, N, K)
  <2>1. \A r \in T \cup ((L \ {s}) \cup {x}) \cup N \cup K : Made(r) /\ r.ptrs \subseteq h
    BY Zenon, <1>3 DEF Sound
  <2>2. \A r, t \in T \cup ((L \ {s}) \cup {x}) \cup N \cup K : r.gen = t.gen => r = t
    BY Zenon, <1>1, <1>2 DEF Sound
  <2>3. \A r \in (L \ {s}) \cup {x} : Backed(r, T)
    BY Zenon, <1>4 DEF Sound
  <2>4. x \notin T \cup N \cup K
    BY Zenon, <1>1, <1>2
  <2> QED
    BY <2>1, <2>2, <2>3, <2>4 DEF Sound
<1>6. Tight(h, T \cup L \cup N \cup K) => Tight(h, T \cup ((L \ {s}) \cup {x}) \cup N \cup K)
  BY Zenon DEF Tight, SameMemory
<1> QED
  BY Zenon, <1>1, <1>2, <1>5, <1>6

LEMMA RetouchTemplate ==
    ASSUME NEW h, NEW T, NEW L, NEW N, NEW K, Sound(h, T, L, N, K), NEW s \in T, NEW x, SameMemory(x, s)
    PROVE  /\ Sound(h, {x}, L, N, K)
           /\ Tight(h, T \cup L \cup N \cup K) => Tight(h, {x} \cup L \cup N \cup K)
<1>1. ASSUME NEW r \in L \cup N \cup K
      PROVE  r.gen # x.gen /\ r # x
  BY <1>1 DEF Sound, SameMemory
<1>2. T = {s}
  BY Zenon DEF Sound
<1>3. Made(x) /\ x.ptrs \subseteq h /\ Whole(x)
  <2>1. Made(s) /\ s.ptrs \subseteq h /\ Whole(s)
    BY Zenon DEF Sound
  <2> QED
    BY Zenon, <2>1 DEF SameMemory, Made, Whole, Own
<1>4. \A r \in L : Backed(r, {x})
  <2>1. \A r \in L : Backed(r, {s})
    BY Zenon, <1>2 DEF Sound
  <2> QED
    BY Zenon, <2>1 DEF SameMemory, Backed, CloneOf
<1>5. Sound(h, {x}, L, N, K)
  <2>1. \A r \in {x} \cup L \cup N \cup K : Made(r) /\ r.ptrs \subseteq h
    BY Zenon, <1>3 DEF Sound
  <2>2. \A r, t \in {x} \cup L \cup N \cup K : r.gen = t.gen => r = t
    BY Zenon, <1>1 DEF Sound
  <2>3. \A r \in {x} \cup N : Whole(r)
    BY Zenon, <1>3 DEF Sound
  <2>4. x \notin L \cup N \cup K
    BY Zenon, <1>1
  <2> QED
    BY ZenonT(30), <1>4, <2>1, <2>2, <2>3, <2>4 DEF Sound
<1>6. Tight(h, T \cup L \cup N \cup K) => Tight(h, {x} \cup L \cup N \cup K)
  BY Zenon, <1>2 DEF Tight, SameMemory
<1> QED
  BY Zenon, <1>5, <1>6

LEMMA FreshLemma ==
    ASSUME NEW h, NEW type, Free(h, type) # {}
    PROVE  Fresh(h, type) \in Free(h, type)
BY Zenon DEF Fresh

LEMMA FreeIsFine ==
    ASSUME NEW m, NEW type, NEW g \in Free(m.heap, type), m.bad = FALSE
    PROVE  Fine(m, g)
<1>1. g \in Nat \ {0}
  BY SessionAssumption DEF Free, Generations
<1> QED
  BY Zenon, <1>1 DEF Free, Fine

(* More memory in use does no harm but to tightness.                       *)
LEMMA SoundGrows ==
    ASSUME NEW h, NEW T, NEW L, NEW N, NEW K, Sound(h, T, L, N, K), NEW d, h \subseteq d
    PROVE  Sound(d, T, L, N, K)
<1>1. \A s \in T \cup L \cup N \cup K : Made(s) /\ s.ptrs \subseteq d
  BY Zenon DEF Sound
<1> QED
  BY <1>1, Zenon DEF Sound

LEMMA NewTemplateLemma ==
    ASSUME NEW m, NEW l, NEW N, NEW k, NEW sp, Healthy(m, {}, l, N, k, sp),
           NEW s, IsStream(s), Made(s), Whole(s), \A o \in m.heap : o[1] # s.gen,
           NEW u, u.heap = m.heap \cup s.ptrs, u.bad = FALSE
    PROVE  Healthy(u, {s}, l, N, k, sp)
<1>1. /\ Sound(m.heap \cup s.ptrs, {s}, InList(l), N, InList(k))
      /\ Tight(m.heap, {} \cup InList(l) \cup N \cup InList(k))
            => Tight(m.heap \cup s.ptrs, {s} \cup InList(l) \cup N \cup InList(k))
  BY Zenon, JoinTemplate DEF Healthy
<1>2. \A x \in {s} \cup InList(l) \cup N \cup InList(k) : IsStream(x)
  BY Zenon DEF Healthy
<1> QED
  BY <1>1, <1>2, Zenon DEF Healthy

(* What a successful srtp_stream_alloc and srtp_stream_init make.          *)
Stands(x, s, p, g) ==
    /\ IsStream(x) /\ Made(x) /\ Whole(x)
    /\ x.gen = g /\ x.ptrs = s.ptrs /\ x.ssrc = p.ssrc

LEMMA MadeLemma ==
    ASSUME NEW p \in Policy, srtp_validate_policy_master_keys(p), NEW g \in Nat \ {0}, NEW q,
           Wanted(p, g) \subseteq q, NEW dir \in Direction,
           NEW s, s = [Blank(g, p) EXCEPT !.ptrs = q], s.ptrs = Own(s),
           NEW x, x = s \/ x = [s EXCEPT !.dir = dir]
    PROVE  Stands(x, s, p, g)
<1>1. /\ <<g, "stream", 0>> \in q /\ <<g, "rtp_auth", 1>> \in q
      /\ p.num_master_keys \in 1..MaxKeys
      /\ p.ssrc \in Ssrc
  BY Zenon, WantedLemma DEF Policy
<1>2. s = [gen |-> g, ssrc |-> p.ssrc, n |-> p.num_master_keys, mki |-> p.mki, ptrs |-> q,
           dir |-> "dir_unknown", index |-> 0, rtcp |-> 0]
  BY Zenon DEF Blank
<1>3. PICK d \in Direction :
        x = [gen |-> g, ssrc |-> p.ssrc, n |-> p.num_master_keys, mki |-> p.mki, ptrs |-> q,
             dir |-> d, index |-> 0, rtcp |-> 0]
  <2>1. CASE x = s
    BY Zenon, <1>2, <2>1 DEF Direction
  <2>2. CASE x = [s EXCEPT !.dir = dir]
    <3>1. x = [gen |-> g, ssrc |-> p.ssrc, n |-> p.num_master_keys, mki |-> p.mki, ptrs |-> q,
               dir |-> dir, index |-> 0, rtcp |-> 0]
      BY <1>2, <2>2
    <3> QED
      BY <3>1, Zenon
  <2> QED
    BY Zenon, <2>1, <2>2
<1>4. /\ x.gen = g /\ x.ssrc = p.ssrc /\ x.n = p.num_master_keys /\ x.mki = p.mki /\ x.ptrs = q
      /\ x.dir = d /\ x.index = 0 /\ x.rtcp = 0
  BY Zenon, <1>3
<1>5. IsStream(x)
  BY Zenon, <1>1, <1>3, <1>4 DEF IsStream
<1>6. s.ptrs = q /\ s.gen = g
  BY <1>2
<1>7. Made(x) /\ Whole(x)
  BY Zenon, <1>1, <1>4, <1>6 DEF Made, Whole, Own
<1> QED
  BY Zenon, <1>4, <1>5, <1>6, <1>7 DEF Stands

IsCtx(c) == c = [m |-> c.m, template |-> c.template, list |-> c.list, spilled |-> c.spilled]

(* srtp_add_stream keeps a session in order whatever fails in it.          *)
Added(r, c, p, N, k) ==
    /\ IsCtx(r.c)
    /\ Healthy(r.c.m, r.c.template, r.c.list, N, k, r.c.spilled)
    /\ TheSession \in c.m.heap => TheSession \in r.c.m.heap
    /\ \/ r.c.list = c.list /\ (p.type = "specific" => ~ r.ok)
       \/ \E s : /\ r.ok /\ r.c.list = <<s>> \o c.list
                 /\ IsStream(s) /\ s.ssrc = p.ssrc /\ s \notin InList(c.list)

LEMMA AddLemma ==
    ASSUME NEW p \in Policy, NEW c, IsCtx(c), c.spilled = FALSE, NEW N, NEW k,
           Healthy(c.m, c.template, c.list, N, k, FALSE),
           NEW g \in Free(c.m.heap, p.type), NEW e, e[2] \in Nat
    PROVE  Added(srtp_add_stream(c, p, g, e), c, p, N, k)
<1> DEFINE r == srtp_add_stream(c, p, g, e)
           a == srtp_stream_alloc(c.m, p, g, e[1])
           b == srtp_stream_init(a.m, a.s, p, e[2])
           u == srtp_stream_dealloc(b.m, b.s, {})
           refused == p.type = "undefined" \/ (p.type # "specific" /\ c.template # {})
           dir == IF p.type = "any_outbound" THEN "dir_srtp_sender" ELSE "dir_srtp_receiver"
<1>0. c.m.bad = FALSE /\ Fine(c.m, g) /\ g \in Nat \ {0} /\ \A o \in c.m.heap : o[1] # g
  <2>1. c.m.bad = FALSE
    BY Zenon DEF Healthy
  <2> QED
    BY Zenon, <2>1, FreeIsFine DEF Fine
<1>1. CASE ~ srtp_validate_policy_master_keys(p)
  <2>1. ~ r.ok /\ r.c = c
    BY Zenon, <1>1 DEF srtp_add_stream
  <2> QED
    BY Zenon, <2>1 DEF Added
<1>2. CASE srtp_validate_policy_master_keys(p) /\ ~ a.ok
  <2>1. ~ r.ok /\ r.c = [c EXCEPT !.m = a.m]
    BY Zenon, <1>2 DEF srtp_add_stream
  <2>2. a.m.heap = c.m.heap /\ a.m.bad = FALSE
    <3>1. Allocated(a, c.m, p, g)
      BY Zenon, <1>0, <1>2, AllocLemma
    <3> QED
      BY <1>2, <3>1, Zenon DEF Allocated
  <2> HIDE DEF a, r
  <2>3. r.c.m = a.m /\ r.c.list = c.list /\ r.c.template = c.template /\ r.c.spilled = FALSE /\ IsCtx(r.c)
    BY Zenon, <2>1 DEF IsCtx
  <2>4. Healthy(a.m, c.template, c.list, N, k, FALSE)
    BY Zenon, <2>2, HealthyMemory
  <2> QED
    BY Zenon, <2>1, <2>2, <2>3, <2>4 DEF r, Added
<1>3. ASSUME srtp_validate_policy_master_keys(p), a.ok
      PROVE  Initialised(b, u, c.m, p, g)
  <2>1. Allocated(a, c.m, p, g)
    BY Zenon, <1>0, <1>3, AllocLemma
  <2>2. a.s = [Blank(g, p) EXCEPT !.ptrs = Wanted(p, g)] /\ a.m = malloc(c.m, Wanted(p, g))
    BY <1>3, <2>1, Zenon DEF Allocated
  <2> HIDE DEF a
  <2> QED
    BY Zenon, <1>0, <1>3, <2>2, InitLemma
<1>4. CASE srtp_validate_policy_master_keys(p) /\ a.ok /\ (~ b.ok \/ refused)
  <2>1. ~ r.ok /\ r.c = [c EXCEPT !.m = u, !.spilled = @ \/ b.spilled]
    BY Zenon, <1>4 DEF srtp_add_stream
  <2>2. u.bad = FALSE /\ c.m.heap \subseteq u.heap /\ (~ b.spilled => u.heap = c.m.heap) /\ b.spilled \in BOOLEAN
    BY <1>3, <1>4, Zenon DEF Initialised
  <2> HIDE DEF a, r, b, u
  <2>3. /\ r.c.m = u /\ r.c.list = c.list /\ r.c.template = c.template
        /\ (r.c.spilled <=> c.spilled \/ b.spilled) /\ r.c.spilled \in BOOLEAN /\ IsCtx(r.c)
    BY Zenon, <2>1 DEF IsCtx
  <2>4. Sound(u.heap, c.template, InList(c.list), N, InList(k))
    BY Zenon, <2>2, SoundGrows DEF Healthy
  <2>5. Healthy(u, c.template, c.list, N, k, r.c.spilled)
    BY Zenon, <2>2, <2>3, <2>4 DEF Healthy
  <2> QED
    BY Zenon, <2>1, <2>2, <2>3, <2>5 DEF r, Added
<1>5. CASE srtp_validate_policy_master_keys(p) /\ a.ok /\ b.ok /\ p.type = "specific"
  <2>1. r.ok /\ r.c = [c EXCEPT !.m = b.m, !.list = <<b.s>> \o @]
    BY Zenon, <1>5 DEF srtp_add_stream
  <2> HIDE DEF a, r, b, u
  <2>2. /\ IsStream(b.s) /\ Made(b.s) /\ Whole(b.s) /\ b.s.gen = g /\ b.s.ssrc = p.ssrc
        /\ b.m.heap = c.m.heap \cup Own(b.s) /\ b.m.bad = FALSE
    <3>1. /\ b.s = [Blank(g, p) EXCEPT !.ptrs = b.s.ptrs] /\ b.s.ptrs = Own(b.s)
          /\ Wanted(p, g) \subseteq b.s.ptrs
          /\ b.m.heap = c.m.heap \cup b.s.ptrs /\ b.m.bad = FALSE
      BY <1>3, <1>5, Zenon DEF Initialised
    <3>2. "dir_unknown" \in Direction
      BY Zenon DEF Direction
    <3>3. Stands(b.s, b.s, p, g)
      BY Zenon, <1>0, <1>5, <3>1, <3>2, MadeLemma
    <3> QED
      BY <3>1, <3>3, Zenon DEF Stands
  <2>3. /\ r.c.m = b.m /\ r.c.list = <<b.s>> \o c.list /\ r.c.template = c.template
        /\ r.c.spilled = FALSE /\ IsCtx(r.c)
    BY ZenonT(30), <2>1 DEF IsCtx
  <2>4. Healthy(b.m, c.template, <<b.s>> \o c.list, N, k, FALSE) /\ b.s \notin InList(c.list)
    <3>1. Backed(b.s, c.template)
      BY Zenon, <2>2 DEF Backed, Whole
    <3> QED
      BY Zenon, <1>0, <2>2, <3>1, JoinLemma
  <2>5. TheSession \in c.m.heap => TheSession \in b.m.heap
    BY Zenon, <2>2
  <2> QED
    BY <2>1, <2>2, <2>3, <2>4, <2>5, Zenon DEF r, Added
<1>6. CASE srtp_validate_policy_master_keys(p) /\ a.ok /\ b.ok /\ ~ refused /\ p.type # "specific"
  <2> DEFINE x == [b.s EXCEPT !.dir = dir]
  <2>1. r.ok /\ r.c = [c EXCEPT !.m = b.m, !.template = {x}]
    BY Zenon, <1>6 DEF srtp_add_stream
  <2>2. dir \in Direction
    BY Zenon DEF Direction
  <2> HIDE DEF a, r, b, u, dir
  <2>3. /\ IsStream(x) /\ Made(x) /\ Whole(x) /\ x.gen = g
        /\ b.m.heap = c.m.heap \cup x.ptrs /\ b.m.bad = FALSE
    <3>1. /\ b.s = [Blank(g, p) EXCEPT !.ptrs = b.s.ptrs] /\ b.s.ptrs = Own(b.s)
          /\ Wanted(p, g) \subseteq b.s.ptrs
          /\ b.m.heap = c.m.heap \cup b.s.ptrs /\ b.m.bad = FALSE
      BY <1>3, <1>6, Zenon DEF Initialised
    <3>2. Stands(x, b.s, p, g)
      BY Zenon, <1>0, <1>6, <2>2, <3>1, MadeLemma
    <3> QED
      BY <3>1, <3>2, Zenon DEF Stands
  <2> HIDE DEF x
  <2>4. /\ r.c.m = b.m /\ r.c.list = c.list /\ r.c.template = {x}
        /\ r.c.spilled = FALSE /\ IsCtx(r.c)
    BY Zenon, <2>1 DEF IsCtx
  <2>5. Healthy(b.m, {x}, c.list, N, k, FALSE)
    <3>1. Healthy(c.m, {}, c.list, N, k, FALSE)
      BY Zenon, <1>6
    <3> QED
      BY Zenon, <1>0, <2>3, <3>1, NewTemplateLemma
  <2>6. TheSession \in c.m.heap => TheSession \in b.m.heap
    BY Zenon, <2>3
  <2> QED
    BY <1>6, <2>4, <2>5, <2>6, Zenon DEF r, Added
<1>7. srtp_validate_policy_master_keys(p) /\ a.ok => b.ok \in BOOLEAN
  BY <1>3, Zenon DEF Initialised
<1> HIDE DEF a, b, r
<1> QED
  BY <1>1, <1>2, <1>4, <1>5, <1>6, <1>7, Zenon DEF a, b, r

(* A clone owns its struct, key array, MKIs and bitmask and shares the     *)
(* rest; one that fails half-way gives its own back.                       *)
Cloned(cl, m, t, ssrc, g) ==
    /\ cl.m.bad = FALSE
    /\ cl.ok \in BOOLEAN
    /\ ~ cl.ok => cl.m.heap = m.heap
    /\ cl.ok => /\ cl.m.heap = m.heap \cup Own(cl.s)
                /\ Made(cl.s) /\ CloneOf(cl.s, t)
                /\ cl.s = [gen |-> g, ssrc |-> ssrc, n |-> t.n, mki |-> t.mki, dir |-> t.dir,
                           index |-> 0, rtcp |-> 0, ptrs |-> cl.s.ptrs]

LEMMA CloneLemma ==
    ASSUME NEW m, NEW t, NEW ssrc, NEW g, Fine(m, g), t.ptrs \subseteq m.heap, NEW k,
           NEW cl, cl = srtp_stream_clone(m, t, ssrc, g, k)
    PROVE  Cloned(cl, m, t, ssrc, g)
<1> DEFINE own == {o \in CloneWanted(t, g) : k = Never \/ CloneTurn(t, o) < k}
           ok == own = CloneWanted(t, g)
           keys == IF k = Never \/ k > 2 THEN {o \in t.ptrs : o[2] \in PerKey} ELSE {}
           xtn == IF ok THEN {o \in t.ptrs : o[2] = "enc_xtn_hdr"} ELSE {}
           got == malloc(m, own)
           s == [gen |-> g, ssrc |-> ssrc, n |-> t.n, mki |-> t.mki, dir |-> t.dir, index |-> 0, rtcp |-> 0,
                 ptrs |-> own \cup keys \cup xtn]
<1>1. cl = [ok |-> ok, s |-> s, m |-> IF ok THEN got ELSE srtp_stream_dealloc(got, s, {t})]
  BY Zenon DEF srtp_stream_clone
<1>2. \A o \in CloneWanted(t, g) : o[1] = g
  BY DEF CloneWanted
<1>3. \A o \in own : o[1] = g
  BY Zenon, <1>2
<1>4. keys \subseteq {o \in t.ptrs : o[2] \in PerKey} /\ xtn \subseteq {o \in t.ptrs : o[2] = "enc_xtn_hdr"}
  BY Zenon
<1>5. ok => keys = {o \in t.ptrs : o[2] \in PerKey} /\ xtn = {o \in t.ptrs : o[2] = "enc_xtn_hdr"}
  <2>1. ASSUME ok PROVE k = Never \/ k > 2
    <3>1. <<g, "session_keys", 0>> \in own
      BY Zenon, <2>1 DEF CloneWanted
    <3>2. k = Never \/ CloneTurn(t, <<g, "session_keys", 0>>) < k
      BY Zenon, <3>1
    <3>3. CloneTurn(t, <<g, "session_keys", 0>>) = 2
      BY Zenon DEF CloneTurn
    <3> QED
      BY Zenon, <3>2, <3>3
  <2> QED
    BY Zenon, <2>1
<1>6. \A o \in t.ptrs : o[1] # g
  BY Zenon DEF Fine
<1>7. got.heap = m.heap \cup own /\ got.bad = FALSE
  BY Zenon DEF Fine, malloc
<1>9. s.ptrs = own \cup keys \cup xtn /\ s.gen = g /\ s.n = t.n
  BY Zenon
<1> HIDE DEF own, ok, keys, xtn, got, s
<1>8. m.heap \cap own = {}
  BY Zenon, <1>3 DEF Fine
<1>10. Own(s) = own
  BY Zenon, <1>3, <1>4, <1>6, <1>9 DEF Own
<1>11. cl.s = s /\ (cl.ok <=> ok) /\ cl.m = IF ok THEN got ELSE srtp_stream_dealloc(got, s, {t})
  BY ONLY Zenon, <1>1
<1>12. cl.ok \in BOOLEAN
  BY ONLY Zenon, <1>1 DEF ok
<1>13. CASE ~ ok
  <2>1. cl.m = srtp_stream_dealloc(got, s, {t})
    BY Zenon, <1>11, <1>13
  <2>2. Released(s, {t}) = own
    <3>1. ASSUME NEW o \in own PROVE o \in Released(s, {t})
      BY Zenon, <1>3, <1>6, <1>9 DEF Released
    <3>2. ASSUME NEW o \in keys \cup xtn PROVE o \notin Released(s, {t})
      BY Zenon, <1>4, <1>9 DEF Released
    <3> QED
      BY Zenon, <1>9, <3>1, <3>2 DEF Released
  <2>3. cl.m.heap = (m.heap \cup own) \ own /\ cl.m.bad = FALSE
    <3>1. Released(s, {t}) \subseteq got.heap
      BY Zenon, <1>7, <2>2
    <3>2. cl.m.heap = got.heap \ Released(s, {t}) /\ cl.m.bad = FALSE
      <4>1. got.bad = FALSE
        BY Zenon, <1>7
      <4>2. PICK T : T = {t}
        BY Zenon
      <4>3. cl.m = srtp_stream_dealloc(got, s, T) /\ Released(s, T) \subseteq got.heap
        BY Zenon, <2>1, <3>1, <4>2
      <4>4. Dealloced(cl.m, got, s, T)
        BY ONLY <4>1, <4>3, DeallocedLemma, Zenon
      <4> QED
        BY <4>2, <4>4, Zenon DEF Dealloced
    <3> QED
      BY <1>7, <2>2, <3>2, Zenon
  <2> QED
    BY Zenon, <1>8, <1>11, <1>12, <1>13, <2>3 DEF Cloned
<1>14. CASE ok
  <2>1. cl.m.heap = m.heap \cup Own(cl.s) /\ cl.m.bad = FALSE
    BY Zenon, <1>7, <1>10, <1>11, <1>14
  <2>2. Made(s)
    <3>1. <<g, "stream", 0>> \in own
      BY Zenon, <1>14 DEF ok, CloneWanted
    <3> QED
      BY Zenon, <1>9, <3>1 DEF Made, Fine
  <2>3. CloneOf(s, t)
    <3>1. s.ptrs \ Own(s) = keys \cup xtn
      BY Zenon, <1>4, <1>6, <1>9, <1>10, <1>3
    <3>2. keys \cup xtn = {o \in t.ptrs : o[2] \in PerKey \cup {"enc_xtn_hdr"}}
      BY Zenon, <1>5, <1>14
    <3> QED
      BY <1>9, <3>1, <3>2, Zenon DEF CloneOf
  <2>4. s = [gen |-> g, ssrc |-> ssrc, n |-> t.n, mki |-> t.mki, dir |-> t.dir,
             index |-> 0, rtcp |-> 0, ptrs |-> s.ptrs]
    BY Zenon, <1>9 DEF s
  <2> QED
    BY <1>11, <1>12, <1>14, <2>1, <2>2, <2>3, <2>4, Zenon DEF Cloned
<1> QED
  BY Zenon, <1>13, <1>14

(* The clone, its numbers and direction perhaps changed, at the head of    *)
(* the list.                                                               *)
LEMMA ClonedLemma ==
    ASSUME NEW m, NEW T, NEW l, NEW N, NEW k, NEW sp, Healthy(m, T, l, N, k, sp),
           NEW t \in T, NEW ssrc, NEW g, Fine(m, g), NEW cl, Cloned(cl, m, t, ssrc, g)
    PROVE  /\ ~ cl.ok => Healthy(cl.m, T, l, N, k, sp)
           /\ cl.ok => \A x : SameMemory(x, cl.s) /\ IsStream(x)
                               => Healthy(cl.m, T, <<x>> \o l, N, k, sp) /\ x \notin InList(l)
           /\ TheSession \in m.heap => TheSession \in cl.m.heap
<1>1. CASE ~ cl.ok
  <2>1. cl.m.heap = m.heap /\ cl.m.bad = FALSE
    BY Zenon, <1>1 DEF Cloned
  <2> QED
    BY ZenonT(30), <1>1, <2>1, HealthyMemory
<1>2. CASE cl.ok
  <2>1. /\ cl.m.heap = m.heap \cup Own(cl.s) /\ cl.m.bad = FALSE
        /\ Made(cl.s) /\ CloneOf(cl.s, t) /\ cl.s.gen = g
    <3>1. cl.s = [gen |-> g, ssrc |-> ssrc, n |-> t.n, mki |-> t.mki, dir |-> t.dir,
                  index |-> 0, rtcp |-> 0, ptrs |-> cl.s.ptrs]
      BY <1>2, Zenon DEF Cloned
    <3>2. cl.s.gen = g
      BY ONLY <3>1, SMTT(30)
    <3> QED
      BY <1>2, <3>2, Zenon DEF Cloned
  <2>2. ASSUME NEW x, SameMemory(x, cl.s), IsStream(x)
        PROVE  Healthy(cl.m, T, <<x>> \o l, N, k, sp) /\ x \notin InList(l)
    <3>1. Own(x) = Own(cl.s)
      BY Zenon, <2>2 DEF SameMemory, Own
    <3>2. Made(x) /\ Backed(x, T)
      BY Zenon, <2>1, <2>2, <3>1 DEF SameMemory, Made, Backed, CloneOf
    <3>3. \A o \in m.heap : o[1] # x.gen
      BY Zenon, <2>1, <2>2 DEF SameMemory, Fine
    <3> QED
      BY ZenonT(30), <2>1, <2>2, <3>1, <3>2, <3>3, JoinLemma
  <2>3. TheSession \in m.heap => TheSession \in cl.m.heap
    BY Zenon, <2>1
  <2> QED
    BY Zenon, <1>2, <2>2, <2>3
<1>3. cl.ok \in BOOLEAN
  BY Zenon DEF Cloned
<1> QED
  BY Zenon, <1>1, <1>2, <1>3

(* Once no stream of the list shares with the template it is freed, and    *)
(* the template and the clones that an update built take over.             *)
LEMMA FreeTemplateLemma ==
    ASSUME NEW m, NEW T, NEW l, NEW N, NEW k, NEW sp, Healthy(m, T, l, N, k, sp), NEW t \in T,
           \A s \in InList(l) : s.ptrs = Own(s)
    PROVE  LET d == srtp_stream_dealloc(m, t, {})
           IN /\ Healthy(d, {}, l, N, k, sp)
              /\ TheSession \in d.heap <=> TheSession \in m.heap
<1> DEFINE d == srtp_stream_dealloc(m, t, {})
<1>1. Sound(m.heap, T, InList(l), N, InList(k))
  BY Zenon DEF Healthy
<1>2. /\ Released(t, {}) = t.ptrs
      /\ t.ptrs \subseteq m.heap
      /\ Sound(m.heap \ t.ptrs, {}, InList(l), N, InList(k))
      /\ Tight(m.heap, T \cup InList(l) \cup N \cup InList(k))
            => Tight(m.heap \ t.ptrs, {} \cup InList(l) \cup N \cup InList(k))
      /\ TheSession \notin t.ptrs
  <2>1. TemplateFreed(m.heap, T, InList(l), N, InList(k), t)
    BY Zenon, <1>1, FreeTemplate
  <2> QED
    BY <2>1, Zenon DEF TemplateFreed
<1>3. d.heap = m.heap \ t.ptrs /\ d.bad = FALSE
  <2>1. m.bad = FALSE
    BY Zenon DEF Healthy
  <2> QED
    BY Zenon, <1>2, <2>1 DEF srtp_stream_dealloc
<1>4. \A x \in {} \cup InList(l) \cup N \cup InList(k) : IsStream(x)
  BY Zenon DEF Healthy
<1> HIDE DEF d
<1>5. Healthy(d, {}, l, N, k, sp)
  BY <1>2, <1>3, <1>4, Zenon DEF Healthy
<1>6. TheSession \in d.heap <=> TheSession \in m.heap
  BY Zenon, <1>2, <1>3
<1> QED
  BY Zenon, <1>5, <1>6 DEF d

LEMMA EmptyList == IsList(<<>>) /\ InList(<<>>) = {}
BY DEF IsList, InList, Distinct

LEMMA Promoted ==
    ASSUME NEW m, NEW l, NEW N, NEW k, NEW sp, Healthy(m, {}, l, N, k, sp)
    PROVE  Healthy(m, N, k \o l, {}, <<>>, sp)
<1> DEFINE L == InList(l)
           K == InList(k)
<1>1. IsList(k \o l) /\ InList(k \o l) = K \cup L
  <2>1. K \cap L = {}
    BY Zenon DEF Healthy, Sound
  <2> QED
    BY Zenon, <2>1, ListJoin DEF Healthy
<1>2. N \cup (K \cup L) \cup {} \cup {} = {} \cup L \cup N \cup K
  BY Zenon
<1>3. Sound(m.heap, N, K \cup L, {}, {})
  <2>1. Sound(m.heap, {}, L, N, K)
    BY ZenonT(30) DEF Healthy
  <2>2. \A r \in K \cup L : Backed(r, N)
    BY Zenon, <2>1 DEF Sound, Backed
  <2>3. N \cap (K \cup L) = {}
    BY Zenon, <2>1 DEF Sound
  <2> HIDE DEF L, K
  <2>4. \A r \in N \cup (K \cup L) \cup {} \cup {} : Made(r) /\ r.ptrs \subseteq m.heap
    BY <1>2, <2>1, Zenon DEF Sound
  <2>5. \A r, t \in N \cup (K \cup L) \cup {} \cup {} : r.gen = t.gen => r = t
    BY <1>2, <2>1, Zenon DEF Sound
  <2>6. \A r \in N \cup {} : Whole(r)
    BY Zenon, <2>1 DEF Sound
  <2>7. \A r, t \in N : r = t
    BY Zenon, <2>1 DEF Sound
  <2> QED
    BY Zenon, <2>2, <2>3, <2>4, <2>5, <2>6, <2>7 DEF Sound
<1>4. \A s \in N \cup (K \cup L) \cup {} \cup {} : IsStream(s)
  BY Zenon DEF Healthy
<1>5. sp \/ Tight(m.heap, N \cup (K \cup L) \cup {} \cup {})
  BY <1>2, Zenon DEF Healthy
<1> HIDE DEF L, K
<1> QED
  BY <1>1, <1>3, <1>4, <1>5, EmptyList, Zenon DEF Healthy
=============================================================================
