--------------------------- MODULE SessionProofs ---------------------------
(***************************************************************************)
(* The memory and the numbering of a session, for any policies, number of  *)
(* keys, streams and packets, with any allocation failing: each step of    *)
(* srtp_create, srtp_update and srtp_dealloc keeps what StreamProofs says  *)
(* of the streams.                                                         *)
(***************************************************************************)
EXTENDS StreamProofs

(* The inductive invariant.                                                *)
SessionInv ==
    /\ Healthy(Session.m, template, list, new_template, new_list, spilled)
    /\ doing \in {"closed", "create", "idle", "update", "undo", "close"}
    /\ doing = "closed" => template = {} /\ list = <<>>
    /\ doing \notin {"update", "undo"} => new_template = {} /\ new_list = <<>>
    /\ TheSession \in heap <=> doing # "closed"

LEMMA SessionInvInit == SessionInit => SessionInv
<1> SUFFICES ASSUME SessionInit
             PROVE  SessionInv
  BY Zenon
<1>1. Sound({}, {}, {}, {}, {}) /\ Tight({}, {} \cup {} \cup {} \cup {})
  BY Zenon DEF Sound, Tight
<1>2. Session.m.heap = {} /\ Session.m.bad = FALSE
  BY Zenon DEF Session, SessionInit
<1>3. Healthy(Session.m, {}, <<>>, {}, <<>>, FALSE)
  BY Zenon, <1>1, <1>2, EmptyList DEF Healthy
<1> QED
  BY Zenon, <1>3 DEF SessionInit, SessionInv

LEMMA SessionIsCtx == IsCtx(Session) /\ Session.m.heap = heap /\ Session.m.bad = bad
                      /\ Session.template = template /\ Session.list = list /\ Session.spilled = spilled
BY Zenon DEF Session, IsCtx

(* A step that leaves the memory as m and the rest as named is in order.   *)
LEMMA InvPrime ==
    ASSUME NEW m, MemoryIs(m), Healthy(m, template', list', new_template', new_list', spilled')
    PROVE  Healthy(Session.m, template, list, new_template, new_list, spilled)'
<1>1. Session.m' = [heap |-> heap', bad |-> bad']
  BY Zenon DEF Session
<1>2. Session.m'.heap = m.heap /\ Session.m'.bad = m.bad
  BY <1>1 DEF MemoryIs
<1>3. m.bad = FALSE
  BY Zenon DEF Healthy
<1> QED
  BY Zenon, <1>2, <1>3, HealthyMemory

(* srtp_remove_stream keeps a session in order.                            *)
Removed(r, c, i, N, k) ==
    /\ IsCtx(r)
    /\ Healthy(r.m, r.template, r.list, N, k, r.spilled)
    /\ TheSession \in r.m.heap <=> TheSession \in c.m.heap
    /\ r.list = Without(c.list, i) /\ r.template = c.template /\ r.spilled = c.spilled
    /\ InList(r.list) = InList(c.list) \ {c.list[i]}
    /\ c.list[i] \in InList(c.list)

LEMMA RemoveLemma ==
    ASSUME NEW c, IsCtx(c), NEW N, NEW k, Healthy(c.m, c.template, c.list, N, k, c.spilled),
           NEW i \in 1..Len(c.list)
    PROVE  Removed(srtp_remove_stream(c, i), c, i, N, k)
<1> DEFINE r == srtp_remove_stream(c, i)
           d == srtp_stream_dealloc(c.m, c.list[i], c.template)
           l == Without(c.list, i)
<1>1. IsList(l) /\ InList(l) = InList(c.list) \ {c.list[i]} /\ c.list[i] \in InList(c.list)
  BY Zenon, ListRemove DEF Healthy
<1>2. Healthy(d, c.template, l, N, k, c.spilled) /\ (TheSession \in d.heap <=> TheSession \in c.m.heap)
  <2> HIDE DEF l
  <2> QED
    BY Zenon, <1>1, FreeLemma
<1>3. r = [c EXCEPT !.list = l, !.m = d]
  BY Zenon DEF srtp_remove_stream
<1> HIDE DEF r, d, l
<1>4. IsCtx(r) /\ r.m = d /\ r.list = l /\ r.template = c.template /\ r.spilled = c.spilled
  BY Zenon, <1>3 DEF IsCtx
<1> QED
  BY <1>1, <1>2, <1>4, Zenon DEF r, l, Removed

----------------------------------------------------------------------------
(* What a step may do to the streams that count packets: drop some, add    *)
(* one, or put another in the place of one, with numbers no lower.         *)
Follows(A, B) ==
    \/ B \subseteq A
    \/ \E x : x \notin A /\ B = A \cup {x}
    \/ \E s \in A : \E x : /\ B \subseteq A \cup {x}
                           /\ x.ssrc = s.ssrc /\ x.index >= s.index /\ x.rtcp >= s.rtcp

Keeps == SessionInv' /\ Follows(Numbering, Numbering')

LEMMA NumberingIdle ==
    ASSUME SessionInv, doing \notin {"update", "undo"}
    PROVE  Numbering = InList(list)
BY Zenon, EmptyList DEF SessionInv, Numbering

LEMMA NumberingIdlePrime ==
    ASSUME new_list' = <<>>
    PROVE  Numbering' = InList(list')
BY Zenon, EmptyList DEF Numbering

(* The conjuncts of the invariant that are not about memory.               *)
Placed(m) ==
    /\ doing' \in {"closed", "create", "idle", "update", "undo", "close"}
    /\ doing' = "closed" => template' = {} /\ list' = <<>>
    /\ doing' \notin {"update", "undo"} => new_template' = {} /\ new_list' = <<>>
    /\ TheSession \in m.heap <=> doing' # "closed"

LEMMA InvHolds ==
    ASSUME NEW m, MemoryIs(m), Healthy(m, template', list', new_template', new_list', spilled'), Placed(m)
    PROVE  SessionInv'
<1>1. Healthy(Session.m, template, list, new_template, new_list, spilled)'
  BY InvPrime, Zenon
<1>2. heap' = m.heap
  BY Zenon DEF MemoryIs
<1> QED
  BY <1>1, <1>2, Zenon DEF SessionInv, Placed

(* One lemma for each group of actions.                                    *)
LEMMA CreateKeeps ==
    ASSUME SessionInv, Create \/ CreateReturns \/ Dealloc
    PROVE  Keeps
<1> DEFINE H(m) == Healthy(m, template, list, new_template, new_list, spilled)
<1>1. CASE Create
  <2> DEFINE m == [heap |-> heap \cup {TheSession}, bad |-> bad]
  <2>1. m.heap = Session.m.heap \cup {TheSession} /\ m.bad = Session.m.bad
    BY Zenon, SessionIsCtx
  <2>2. H(Session.m)
    BY Zenon DEF SessionInv
  <2>3. MemoryIs(m)
    BY Zenon, <1>1 DEF Create, MemoryIs
  <2> HIDE DEF m
  <2>4. Sound(m.heap, template, InList(list), new_template, InList(new_list))
    BY Zenon, <2>1, <2>2, SoundGrows DEF Healthy
  <2>5. Tight(Session.m.heap, template \cup InList(list) \cup new_template \cup InList(new_list))
        => Tight(m.heap, template \cup InList(list) \cup new_template \cup InList(new_list))
    BY Zenon, <2>1 DEF Tight
  <2>6. H(m)
    BY <2>1, <2>2, <2>4, <2>5, Zenon DEF Healthy
  <2>7. Healthy(m, template', list', new_template', new_list', spilled')
    BY <1>1, <2>6, Zenon DEF Create
  <2>8. Healthy(Session.m, template, list, new_template, new_list, spilled)'
    BY Zenon, <2>3, <2>7, InvPrime
  <2>9. SessionInv' /\ Numbering' = Numbering
    BY Zenon, <1>1, <2>8 DEF SessionInv, Create, Numbering
  <2> QED
    BY <2>9, Zenon DEF Keeps, Follows
<1>2. CASE CreateReturns \/ Dealloc
  <2>1. MemoryIs(Session.m)
    BY Zenon, <1>2, SessionIsCtx DEF CreateReturns, Dealloc, MemoryIs
  <2>2. Healthy(Session.m, template', list', new_template', new_list', spilled')
    BY <1>2, Zenon DEF SessionInv, CreateReturns, Dealloc
  <2>3. Healthy(Session.m, template, list, new_template, new_list, spilled)'
    BY Zenon, <2>1, <2>2, InvPrime
  <2>4. SessionInv' /\ Numbering' = Numbering
    BY Zenon, <1>2, <2>3 DEF SessionInv, CreateReturns, Dealloc, Numbering
  <2> QED
    BY <2>4, Zenon DEF Keeps, Follows
<1> QED
  BY Zenon, <1>1, <1>2

(* The session after a step that ends as c.                                *)
LEMMA CtxPrime ==
    ASSUME NEW c, SessionIs(c), Healthy(c.m, c.template, c.list, new_template', new_list', c.spilled)
    PROVE  /\ Healthy(Session.m, template, list, new_template, new_list, spilled)'
           /\ heap' = c.m.heap
<1>1. MemoryIs(c.m) /\ heap' = c.m.heap
  BY Zenon DEF SessionIs, MemoryIs
<1>2. Healthy(c.m, template', list', new_template', new_list', spilled')
  BY Zenon DEF SessionIs
<1> QED
  BY Zenon, <1>1, <1>2, InvPrime

LEMMA PolicyLemma ==
    ASSUME NEW p \in Policies
    PROVE  p \in Policy /\ \A e \in Failures(p) : e[2] \in Nat
<1>1. p \in Policy /\ p.num_master_keys \in Nat
  BY SessionAssumption DEF Policy
<1>2. InitSteps(p) \subseteq Nat
  BY <1>1 DEF InitSteps
<1>3. \A e \in Failures(p) : e[2] = Never \/ e[2] \in InitSteps(p)
  BY SMTT(30) DEF Failures
<1> QED
  BY <1>1, <1>2, <1>3 DEF Never

LEMMA AddKeeps ==
    ASSUME SessionInv, ~ spilled, NEW p \in Policies, AddStream(p)
    PROVE  Keeps
<1>1. PICK e \in Failures(p) :
        LET r == srtp_add_stream(Session, p, Fresh(heap, p.type), e)
        IN /\ SessionIs(r.c)
           /\ doing' = IF doing = "create" /\ ~ r.ok THEN "close" ELSE doing
  BY Zenon DEF AddStream
<1> DEFINE r == srtp_add_stream(Session, p, Fresh(heap, p.type), e)
<1>2. /\ IsCtx(Session) /\ Session.m.heap = heap /\ Session.template = template
      /\ Session.list = list /\ Session.spilled = FALSE
  BY Zenon, SessionIsCtx DEF SessionInv, Healthy
<1>3. Healthy(Session.m, Session.template, Session.list, new_template, new_list, FALSE)
  BY <1>2, SessionIsCtx, Zenon DEF SessionInv
<1>4. Fresh(heap, p.type) \in Free(Session.m.heap, p.type)
  BY Zenon, <1>2, FreshLemma DEF AddStream
<1>5. p \in Policy /\ e[2] \in Nat
  BY Zenon, <1>1, PolicyLemma
<1>6. /\ Healthy(r.c.m, r.c.template, r.c.list, new_template, new_list, r.c.spilled)
      /\ TheSession \in Session.m.heap => TheSession \in r.c.m.heap
      /\ \/ r.c.list = Session.list
         \/ \E s : r.c.list = <<s>> \o Session.list /\ s \notin InList(Session.list)
  <2>1. Added(r, Session, p, new_template, new_list)
    BY Zenon, <1>2, <1>3, <1>4, <1>5, AddLemma
  <2> QED
    BY <2>1, Zenon DEF Added
<1> HIDE DEF r
<1>7. SessionIs(r.c) /\ doing' \in {"close", doing}
  BY Zenon, <1>1 DEF r
<1>8. new_template' = new_template /\ new_list' = new_list /\ doing \in {"create", "idle"}
  BY Zenon DEF AddStream
<1>9. Healthy(Session.m, template, list, new_template, new_list, spilled)' /\ heap' = r.c.m.heap
  BY Zenon, <1>6, <1>7, <1>8, CtxPrime
<1>10. SessionInv'
  BY Zenon, <1>2, <1>6, <1>7, <1>8, <1>9 DEF SessionInv
<1>11. list' = r.c.list /\ Numbering = InList(list) /\ new_list' = <<>>
  BY Zenon, <1>7, <1>8, NumberingIdle DEF SessionIs, SessionInv
<1>12. Follows(Numbering, Numbering')
  <2>1. CASE r.c.list = list
    BY <1>11, <2>1, NumberingIdlePrime, Zenon DEF Follows
  <2>2. CASE \E s : r.c.list = <<s>> \o list /\ s \notin InList(list)
    <3>1. PICK s : r.c.list = <<s>> \o list /\ s \notin InList(list)
      BY Zenon, <2>2
    <3>2. IsList(list)
      BY Zenon DEF SessionInv, Healthy
    <3>3. InList(list') = InList(list) \cup {s}
      BY <1>11, <3>1, <3>2, ListCons, Zenon
    <3> QED
      BY <1>11, <3>1, <3>3, NumberingIdlePrime, Zenon DEF Follows
  <2> QED
    BY <1>2, <1>6, <2>1, <2>2, Zenon
<1> QED
  BY <1>10, <1>12, Zenon DEF Keeps

(* The stream of an SSRC is a place of the list.                           *)
LEMMA GetLemma ==
    ASSUME NEW l, NEW ssrc, NEW i \in srtp_get_stream(l, ssrc)
    PROVE  i \in 1..Len(l) /\ l[i].ssrc = ssrc
BY Zenon DEF srtp_get_stream

LEMMA RemoveKeeps ==
    ASSUME SessionInv, ~ spilled, NEW ssrc \in Ssrc, RemoveStream(ssrc)
    PROVE  Keeps
<1>1. PICK i \in srtp_get_stream(list, ssrc) : SessionIs(srtp_remove_stream(Session, i))
  BY Zenon DEF RemoveStream
<1> DEFINE r == srtp_remove_stream(Session, i)
<1>2. IsCtx(Session) /\ Session.m.heap = heap /\ i \in 1..Len(Session.list)
  BY Zenon, SessionIsCtx, GetLemma
<1>3. Healthy(Session.m, Session.template, Session.list, new_template, new_list, Session.spilled)
  BY SessionIsCtx, Zenon DEF SessionInv
<1>4. /\ Healthy(r.m, r.template, r.list, new_template, new_list, r.spilled)
      /\ TheSession \in r.m.heap <=> TheSession \in Session.m.heap
      /\ InList(r.list) = InList(Session.list) \ {Session.list[i]}
  <2>1. Removed(r, Session, i, new_template, new_list)
    BY Zenon, <1>2, <1>3, RemoveLemma
  <2> QED
    BY <2>1, Zenon DEF Removed
<1> HIDE DEF r
<1>5. new_template' = new_template /\ new_list' = new_list /\ doing' = doing /\ doing = "idle" /\ SessionIs(r)
  BY Zenon, <1>1 DEF RemoveStream, r
<1>6. Healthy(Session.m, template, list, new_template, new_list, spilled)' /\ heap' = r.m.heap
  BY Zenon, <1>4, <1>5, CtxPrime
<1>7. SessionInv'
  BY Zenon, <1>2, <1>4, <1>5, <1>6 DEF SessionInv
<1>8. Numbering' \subseteq Numbering
  BY Zenon, <1>4, <1>5, SessionIsCtx DEF SessionIs, Numbering
<1> QED
  BY <1>7, <1>8, Zenon DEF Keeps, Follows

(* A stream of the list with other numbers or another direction.           *)
Touched(m, T, l, N, k, sp, i, x) ==
    /\ Healthy(m, T, [l EXCEPT ![i] = x], N, k, sp)
    /\ InList([l EXCEPT ![i] = x]) = (InList(l) \ {l[i]}) \cup {x}
    /\ l[i] \in InList(l)

LEMMA RetouchLemma ==
    ASSUME NEW m, NEW T, NEW l, NEW N, NEW k, NEW sp, Healthy(m, T, l, N, k, sp),
           NEW i \in 1..Len(l), NEW x, SameMemory(x, l[i]), IsStream(x)
    PROVE  Touched(m, T, l, N, k, sp, i, x)
<1> DEFINE L == (InList(l) \ {l[i]}) \cup {x}
           r == [l EXCEPT ![i] = x]
<1>1. l[i] \in InList(l)
  BY Zenon DEF InList
<1>2. Sound(m.heap, T, InList(l), N, InList(k))
  BY Zenon DEF Healthy
<1>3. /\ Sound(m.heap, T, L, N, InList(k))
      /\ Tight(m.heap, T \cup InList(l) \cup N \cup InList(k)) => Tight(m.heap, T \cup L \cup N \cup InList(k))
      /\ x \notin InList(l) \ {l[i]}
  BY Zenon, <1>1, <1>2, RetouchStream
<1>4. IsList(r) /\ InList(r) = L
  <2>1. IsList(l)
    BY Zenon DEF Healthy
  <2>2. x \notin InList(l) \ {l[i]}
    BY Zenon, <1>3
  <2>3. i \in 1..Len(l)
    BY Zenon
  <2>4. Replaced(l, i, x)
    BY ONLY <2>1, <2>2, <2>3, ListReplace, Zenon
  <2> QED
    BY <2>4, Zenon DEF Replaced
<1>5. \A s \in T \cup L \cup N \cup InList(k) : IsStream(s)
  BY Zenon DEF Healthy
<1> HIDE DEF L, r
<1>6. Healthy(m, T, r, N, k, sp)
  BY <1>3, <1>4, <1>5, Zenon DEF Healthy
<1> QED
  BY ZenonT(30), <1>1, <1>4, <1>6 DEF r, L, Touched

Retouched(x, s, d, i, r) ==
    /\ IsStream(x) /\ SameMemory(x, s)
    /\ x.mki = s.mki /\ x.ssrc = s.ssrc /\ x.dir = d /\ x.index = i /\ x.rtcp = r

LEMMA RetouchedNumbers ==
    ASSUME NEW s, IsStream(s), NEW i \in Nat, NEW r \in Nat, NEW x, x = [s EXCEPT !.index = i, !.rtcp = r]
    PROVE  Retouched(x, s, s.dir, i, r)
<1>1. x = [gen |-> s.gen, ssrc |-> s.ssrc, n |-> s.n, mki |-> s.mki, ptrs |-> s.ptrs, dir |-> s.dir,
           index |-> i, rtcp |-> r]
  BY Zenon DEF IsStream
<1>2. /\ x.gen = s.gen /\ x.ssrc = s.ssrc /\ x.n = s.n /\ x.mki = s.mki /\ x.ptrs = s.ptrs
      /\ x.dir = s.dir /\ x.index = i /\ x.rtcp = r
  BY ONLY Zenon, <1>1
<1> QED
  BY <1>1, <1>2, Zenon DEF Retouched, IsStream, SameMemory

LEMMA RetouchedDirection ==
    ASSUME NEW s, IsStream(s), NEW d \in Direction, NEW x, x = [s EXCEPT !.dir = d]
    PROVE  Retouched(x, s, d, s.index, s.rtcp)
<1>1. x = [gen |-> s.gen, ssrc |-> s.ssrc, n |-> s.n, mki |-> s.mki, ptrs |-> s.ptrs, dir |-> d,
           index |-> s.index, rtcp |-> s.rtcp]
  BY Zenon DEF IsStream
<1>2. /\ x.gen = s.gen /\ x.ssrc = s.ssrc /\ x.n = s.n /\ x.mki = s.mki /\ x.ptrs = s.ptrs
      /\ x.dir = d /\ x.index = s.index /\ x.rtcp = s.rtcp
  BY ONLY Zenon, <1>1
<1> QED
  BY <1>1, <1>2, Zenon DEF Retouched, IsStream, SameMemory

(* A packet moves one of the two numbers forward.                          *)
Advanced(x, s) ==
    /\ IsStream(x) /\ SameMemory(x, s)
    /\ x.ssrc = s.ssrc /\ x.index >= s.index /\ x.rtcp >= s.rtcp

LEMMA NumberedLemma ==
    ASSUME NEW s, IsStream(s), NEW rtp \in BOOLEAN
    PROVE  Advanced(Numbered(s, rtp), s)
<1> DEFINE x == Numbered(s, rtp)
<1>1. PICK i \in Nat, r \in Nat : /\ i >= s.index /\ r >= s.rtcp
                                  /\ x = [gen |-> s.gen, ssrc |-> s.ssrc, n |-> s.n, mki |-> s.mki,
                                          ptrs |-> s.ptrs, dir |-> s.dir, index |-> i, rtcp |-> r]
  <2>1. s.index \in Nat /\ s.rtcp \in Nat
    BY Zenon DEF IsStream
  <2>2. CASE rtp
    <3>1. x = [gen |-> s.gen, ssrc |-> s.ssrc, n |-> s.n, mki |-> s.mki, ptrs |-> s.ptrs, dir |-> s.dir,
               index |-> s.index + 1, rtcp |-> s.rtcp]
      BY <2>2, Zenon DEF IsStream, Numbered
    <3>2. s.index + 1 \in Nat /\ s.index + 1 >= s.index /\ s.rtcp >= s.rtcp
      BY <2>1
    <3> QED
      BY <2>1, <3>1, <3>2, Zenon
  <2>3. CASE ~ rtp
    <3>1. x = [gen |-> s.gen, ssrc |-> s.ssrc, n |-> s.n, mki |-> s.mki, ptrs |-> s.ptrs, dir |-> s.dir,
               index |-> s.index, rtcp |-> s.rtcp + 1]
      BY <2>3, Zenon DEF IsStream, Numbered
    <3>2. s.rtcp + 1 \in Nat /\ s.rtcp + 1 >= s.rtcp /\ s.index >= s.index
      BY <2>1
    <3> QED
      BY <2>1, <3>1, <3>2, Zenon
  <2> QED
    BY Zenon, <2>2, <2>3
<1> HIDE DEF x
<1>2. /\ x.gen = s.gen /\ x.ssrc = s.ssrc /\ x.n = s.n /\ x.mki = s.mki /\ x.ptrs = s.ptrs
      /\ x.dir = s.dir /\ x.index = i /\ x.rtcp = r
  BY ONLY Zenon, <1>1
<1> QED
  BY <1>1, <1>2, Zenon DEF Advanced, IsStream, SameMemory, x

LEMMA DirectedLemma ==
    ASSUME NEW s, IsStream(s), NEW d \in Direction
    PROVE  Advanced(Directed(s, d), s) /\ Directed(s, d).mki = s.mki
<1>0. s.index \in Nat /\ s.rtcp \in Nat
  BY Zenon DEF IsStream
<1>1. CASE s.dir = "dir_unknown"
  <2>1. Retouched(Directed(s, d), s, d, s.index, s.rtcp)
    BY Zenon, <1>1, RetouchedDirection DEF Directed
  <2> QED
    BY <1>0, <2>1 DEF Retouched, Advanced
<1>2. CASE s.dir # "dir_unknown"
  <2>1. Directed(s, d) = s
    BY Zenon, <1>2 DEF Directed
  <2> QED
    BY <1>0, <2>1 DEF Advanced, SameMemory
<1> QED
  BY Zenon, <1>1, <1>2

LEMMA AdvancedTwice ==
    ASSUME NEW x, NEW y, NEW s, IsStream(s), Advanced(y, s), Advanced(x, y)
    PROVE  Advanced(x, s)
BY SMTT(30) DEF Advanced, SameMemory, IsStream

(* update_stream: a removal, an addition, the old numbers put back.        *)
StreamUpdated(u, c, i, p, N, k) ==
    /\ Healthy(u.c.m, u.c.template, u.c.list, N, k, u.c.spilled)
    /\ TheSession \in c.m.heap => TheSession \in u.c.m.heap
    /\ c.list[i] \in InList(c.list)
    /\ \/ InList(u.c.list) \subseteq InList(c.list)
       \/ \E x : /\ InList(u.c.list) \subseteq InList(c.list) \cup {x}
                 /\ x.ssrc = p.ssrc
                 /\ x.index = c.list[i].index /\ x.rtcp = c.list[i].rtcp

LEMMA UpdateStreamLemma ==
    ASSUME NEW p \in Policy, p.type = "specific", NEW c, IsCtx(c), c.spilled = FALSE, NEW N, NEW k,
           Healthy(c.m, c.template, c.list, N, k, FALSE), NEW i \in 1..Len(c.list),
           Free(srtp_remove_stream(c, i).m.heap, p.type) # {}, NEW e, e[2] \in Nat
    PROVE  StreamUpdated(update_stream(c, i, p, e), c, i, p, N, k)
<1> DEFINE r == srtp_remove_stream(c, i)
           g == Fresh(r.m.heap, p.type)
           a == srtp_add_stream(r, p, g, e)
           u == update_stream(c, i, p, e)
           z == c.list[i]
<1>1. /\ IsCtx(r)
      /\ Healthy(r.m, r.template, r.list, N, k, r.spilled)
      /\ TheSession \in r.m.heap <=> TheSession \in c.m.heap
      /\ r.spilled = FALSE
      /\ InList(r.list) = InList(c.list) \ {z} /\ z \in InList(c.list)
  <2>1. Removed(r, c, i, N, k)
    BY Zenon, RemoveLemma
  <2> QED
    BY <2>1, Zenon DEF Removed
<1>2. g \in Free(r.m.heap, p.type)
  BY Zenon, FreshLemma
<1> HIDE DEF r, g
<1>3. /\ IsCtx(a.c)
      /\ Healthy(a.c.m, a.c.template, a.c.list, N, k, a.c.spilled)
      /\ TheSession \in r.m.heap => TheSession \in a.c.m.heap
      /\ \/ a.c.list = r.list /\ ~ a.ok
         \/ \E s : /\ a.ok /\ a.c.list = <<s>> \o r.list
                   /\ IsStream(s) /\ s.ssrc = p.ssrc /\ s \notin InList(r.list)
  <2>1. Added(a, r, p, N, k)
    <3>1. Healthy(r.m, r.template, r.list, N, k, FALSE)
      BY <1>1, Zenon
    <3> QED
      BY Zenon, <1>1, <1>2, <3>1, AddLemma
  <2> HIDE DEF a
  <2> QED
    BY <2>1, Zenon DEF Added
<1>4. u = IF a.ok THEN [a EXCEPT !.c.list[1].index = z.index, !.c.list[1].rtcp = z.rtcp] ELSE a
  BY Zenon DEF update_stream, r, g
<1>5. a = [ok |-> a.ok, c |-> a.c]
  BY Zenon DEF srtp_add_stream
<1> HIDE DEF a, u, z
<1>6. CASE ~ a.ok
  <2>1. u = a /\ a.c.list = r.list
    BY Zenon, <1>3, <1>4, <1>6
  <2> QED
    BY <1>1, <1>3, <2>1, Zenon DEF u, z, StreamUpdated
<1>7. CASE a.ok
  <2>1. PICK s : /\ a.c.list = <<s>> \o r.list
                 /\ IsStream(s) /\ s.ssrc = p.ssrc /\ s \notin InList(r.list)
    BY Zenon, <1>3, <1>7
  <2> DEFINE x == [s EXCEPT !.index = z.index, !.rtcp = z.rtcp]
             l == [a.c.list EXCEPT ![1] = x]
  <2>2. IsList(r.list) /\ r.list \in Seq(InList(r.list))
    BY ZenonT(30), <1>1 DEF Healthy, IsList
  <2>3. a.c.list[1] = s /\ 1 \in 1..Len(a.c.list)
    BY <2>1, <2>2
  <2>4. InList(a.c.list) = InList(r.list) \cup {s}
    BY Zenon, <2>1, <2>2, ListCons
  <2>5. z.index \in Nat /\ z.rtcp \in Nat
    BY Zenon, <1>1 DEF Healthy, IsStream
  <2>6. Retouched(x, s, s.dir, z.index, z.rtcp)
    BY Zenon, <2>1, <2>5, RetouchedNumbers
  <2> HIDE DEF x
  <2>7. x.ssrc = s.ssrc /\ x.index = z.index /\ x.rtcp = z.rtcp
    BY <2>6, Zenon DEF Retouched
  <2>8. IsStream(x) /\ SameMemory(x, a.c.list[1])
    BY <2>3, <2>6, Zenon DEF Retouched
  <2>9. /\ Healthy(a.c.m, a.c.template, l, N, k, a.c.spilled)
        /\ InList(l) = (InList(a.c.list) \ {a.c.list[1]}) \cup {x}
    <3>1. Touched(a.c.m, a.c.template, a.c.list, N, k, a.c.spilled, 1, x)
      BY ZenonT(30), <1>3, <2>3, <2>8, RetouchLemma
    <3> QED
      BY <3>1, Zenon DEF Touched
  <2>10. u.c.m = a.c.m /\ u.c.template = a.c.template /\ u.c.spilled = a.c.spilled /\ u.c.list = l
    <3>1. u = [a EXCEPT !.c.list[1].index = z.index, !.c.list[1].rtcp = z.rtcp]
      BY Zenon, <1>4, <1>7
    <3>2. a.c.list \in Seq(InList(a.c.list))
      BY Zenon, <1>3 DEF Healthy, IsList
    <3>3. u.c = [a.c EXCEPT !.list[1].index = z.index, !.list[1].rtcp = z.rtcp]
      BY Zenon, <1>5, <3>1
    <3>4. u.c.list = [a.c.list EXCEPT ![1].index = z.index, ![1].rtcp = z.rtcp]
      BY Zenon, <1>3, <3>3 DEF IsCtx
    <3>5. u.c.m = a.c.m /\ u.c.template = a.c.template /\ u.c.spilled = a.c.spilled
      BY Zenon, <1>3, <3>3 DEF IsCtx
    <3>6. u.c.list = l
      BY ZenonT(30), <2>3, <3>2, <3>4 DEF x
    <3> QED
      BY Zenon, <3>5, <3>6
  <2> HIDE DEF l
  <2>11. InList(u.c.list) = InList(r.list) \cup {x}
    BY Zenon, <2>1, <2>3, <2>4, <2>9, <2>10
  <2> QED
    <3>1. InList(u.c.list) \subseteq InList(c.list) \cup {x}
      BY Zenon, <1>1, <2>11
    <3>2. x.ssrc = p.ssrc
      BY <2>1, <2>7, Zenon
    <3> QED
      BY <1>1, <1>3, <2>7, <2>9, <2>10, <3>1, <3>2, ZenonT(30) DEF u, z, StreamUpdated
<1> QED
  BY Zenon, <1>6, <1>7

LEMMA UpdateKeeps ==
    ASSUME SessionInv, ~ spilled, NEW p \in Policies, UpdateStream(p)
    PROVE  Keeps
<1>1. PICK i \in srtp_get_stream(list, p.ssrc), e \in Failures(p) :
        /\ Free(srtp_remove_stream(Session, i).m.heap, p.type) # {}
        /\ SessionIs(update_stream(Session, i, p, e).c)
  BY Zenon DEF UpdateStream
<1> DEFINE u == update_stream(Session, i, p, e)
<1>2. /\ IsCtx(Session) /\ Session.m.heap = heap /\ Session.spilled = FALSE
      /\ i \in 1..Len(Session.list)
  BY Zenon, SessionIsCtx, GetLemma DEF SessionInv, Healthy
<1>3. Healthy(Session.m, Session.template, Session.list, new_template, new_list, FALSE)
  BY <1>2, SessionIsCtx, Zenon DEF SessionInv
<1>4. p \in Policy /\ e[2] \in Nat /\ p.type = "specific"
  BY Zenon, PolicyLemma DEF UpdateStream
<1>5. /\ Healthy(u.c.m, u.c.template, u.c.list, new_template, new_list, u.c.spilled)
      /\ TheSession \in Session.m.heap => TheSession \in u.c.m.heap
      /\ Session.list[i] \in InList(Session.list)
      /\ \/ InList(u.c.list) \subseteq InList(Session.list)
         \/ \E x : /\ InList(u.c.list) \subseteq InList(Session.list) \cup {x}
                   /\ x.ssrc = p.ssrc
                   /\ x.index = Session.list[i].index /\ x.rtcp = Session.list[i].rtcp
  <2>1. StreamUpdated(u, Session, i, p, new_template, new_list)
    BY Zenon, <1>1, <1>2, <1>3, <1>4, UpdateStreamLemma
  <2> HIDE DEF u
  <2> QED
    BY <2>1, Zenon DEF StreamUpdated
<1> HIDE DEF u
<1>6. new_template' = new_template /\ new_list' = new_list /\ doing' = doing /\ doing = "idle" /\ SessionIs(u.c)
  BY Zenon, <1>1 DEF UpdateStream, u
<1>7. Healthy(Session.m, template, list, new_template, new_list, spilled)' /\ heap' = u.c.m.heap
  BY Zenon, <1>5, <1>6, CtxPrime
<1>8. SessionInv'
  BY Zenon, <1>2, <1>5, <1>6, <1>7 DEF SessionInv
<1>9. list' = u.c.list /\ Numbering = InList(list) /\ Numbering' = InList(list')
  <2>1. new_list' = <<>>
    BY <1>6, Zenon DEF SessionInv
  <2> QED
    BY Zenon, <1>6, <2>1, NumberingIdle, NumberingIdlePrime DEF SessionIs
<1>10. Follows(Numbering, Numbering')
  <2>1. CASE InList(u.c.list) \subseteq InList(list)
    BY <1>9, <2>1, Zenon DEF Follows
  <2>2. CASE \E x : /\ InList(u.c.list) \subseteq InList(list) \cup {x}
                    /\ x.ssrc = p.ssrc
                    /\ x.index = list[i].index /\ x.rtcp = list[i].rtcp
    <3>1. PICK x : /\ InList(u.c.list) \subseteq InList(list) \cup {x}
                   /\ x.ssrc = p.ssrc
                   /\ x.index = list[i].index /\ x.rtcp = list[i].rtcp
      BY Zenon, <2>2
    <3>2. list[i] \in InList(list) /\ list[i].ssrc = p.ssrc
      BY <1>5, SessionIsCtx, GetLemma
    <3>3. list[i].index \in Nat /\ list[i].rtcp \in Nat
      BY Zenon, <3>2 DEF SessionInv, Healthy, IsStream
    <3>4. x.index >= list[i].index /\ x.rtcp >= list[i].rtcp
      BY <3>1, <3>3
    <3> QED
      BY <1>9, <3>1, <3>2, <3>4, Zenon DEF Follows
  <2> QED
    BY <1>5, <2>1, <2>2, SessionIsCtx, Zenon
<1> QED
  BY <1>8, <1>10, Zenon DEF Keeps

LEMMA DeallocStreamKeeps ==
    ASSUME SessionInv, DeallocStream
    PROVE  Keeps
<1> DEFINE d == srtp_stream_dealloc(Session.m, Head(list), template)
           l == Tail(list)
<1>1. Healthy(Session.m, template, list, new_template, new_list, spilled) /\ TheSession \in Session.m.heap
  BY SessionIsCtx, ZenonT(30) DEF SessionInv, DeallocStream
<1>2. IsList(l) /\ InList(l) = InList(list) \ {Head(list)} /\ Head(list) \in InList(list)
  BY Zenon, <1>1, ListTail DEF Healthy, DeallocStream
<1>3. /\ MemoryIs(d) /\ list' = l
      /\ doing = "close" /\ doing' = doing /\ spilled' = spilled
      /\ template' = template /\ new_template' = new_template /\ new_list' = new_list
  BY Zenon DEF DeallocStream
<1> HIDE DEF l
<1>4. Healthy(d, template, l, new_template, new_list, spilled) /\ TheSession \in d.heap
  BY Zenon, <1>1, <1>2, FreeLemma
<1> HIDE DEF d
<1>5. Healthy(d, template', list', new_template', new_list', spilled')
  BY <1>3, <1>4, ZenonT(30)
<1>6. Placed(d)
  BY Zenon, <1>3, <1>4 DEF Placed, SessionInv
<1>7. SessionInv'
  BY <1>3, <1>5, <1>6, InvHolds, Zenon
<1>8. Numbering' \subseteq Numbering
  BY Zenon, <1>2, <1>3 DEF Numbering
<1> QED
  BY <1>7, <1>8, Zenon DEF Keeps, Follows

LEMMA UndoCloneKeeps ==
    ASSUME SessionInv, UndoClone
    PROVE  Keeps
<1> DEFINE d == srtp_stream_dealloc(Session.m, Head(new_list), new_template)
           l == Tail(new_list)
<1>1. Healthy(Session.m, new_template, new_list, template, list, spilled) /\ TheSession \in Session.m.heap
  BY SessionIsCtx, HealthySwap, ZenonT(30) DEF SessionInv, UndoClone
<1>2. IsList(l) /\ InList(l) = InList(new_list) \ {Head(new_list)} /\ Head(new_list) \in InList(new_list)
  BY Zenon, <1>1, ListTail DEF Healthy, UndoClone
<1>3. /\ MemoryIs(d) /\ new_list' = l
      /\ doing = "undo" /\ doing' = doing /\ spilled' = spilled
      /\ template' = template /\ new_template' = new_template /\ list' = list
  BY Zenon DEF UndoClone
<1> HIDE DEF l
<1>4. Healthy(d, new_template, l, template, list, spilled) /\ TheSession \in d.heap
  BY Zenon, <1>1, <1>2, FreeLemma
<1> HIDE DEF d
<1>5. Healthy(d, template', list', new_template', new_list', spilled')
  BY <1>3, <1>4, HealthySwap, Zenon
<1>6. Placed(d)
  BY Zenon, <1>3, <1>4 DEF Placed
<1>7. SessionInv'
  BY <1>3, <1>5, <1>6, InvHolds, Zenon
<1>8. Numbering' \subseteq Numbering
  BY Zenon, <1>2, <1>3 DEF Numbering
<1> QED
  BY <1>7, <1>8, Zenon DEF Keeps, Follows

LEMMA UndoTemplateKeeps ==
    ASSUME SessionInv, UndoTemplate
    PROVE  Keeps
<1>1. PICK new \in new_template : MemoryIs(srtp_stream_dealloc(Session.m, new, {}))
  BY Zenon DEF UndoTemplate
<1> DEFINE d == srtp_stream_dealloc(Session.m, new, {})
<1>2. Healthy(Session.m, new_template, <<>>, template, list, spilled) /\ TheSession \in Session.m.heap
  BY SessionIsCtx, HealthySwap, Zenon DEF SessionInv, UndoTemplate
<1>3. /\ new_list = <<>> /\ new_list' = new_list /\ doing' = "idle" /\ spilled' = spilled
      /\ template' = template /\ new_template' = {} /\ list' = list
  BY Zenon DEF UndoTemplate
<1>4. Healthy(d, {}, <<>>, template, list, spilled) /\ TheSession \in d.heap
  <2>1. \A s \in InList(<<>>) : s.ptrs = Own(s)
    BY Zenon, EmptyList
  <2> QED
    BY Zenon, <1>2, <2>1, FreeTemplateLemma
<1>5. MemoryIs(d)
  BY Zenon, <1>1
<1> HIDE DEF d
<1>6. Healthy(d, template', list', new_template', new_list', spilled')
  BY <1>3, <1>4, HealthySwap, ZenonT(30)
<1>7. Placed(d)
  BY Zenon, <1>3, <1>4 DEF Placed
<1>8. SessionInv'
  BY <1>5, <1>6, <1>7, InvHolds, Zenon
<1>9. Numbering' \subseteq Numbering
  BY Zenon, <1>3 DEF Numbering
<1> QED
  BY <1>8, <1>9, Zenon DEF Keeps, Follows

LEMMA DeallocSessionKeeps ==
    ASSUME SessionInv, DeallocSession
    PROVE  Keeps
<1>1. /\ list = <<>> /\ list' = list /\ template' = {} /\ doing' = "closed" /\ doing = "close"
      /\ new_template = {} /\ new_list = <<>> /\ new_template' = {} /\ new_list' = <<>> /\ spilled' = spilled
  BY Zenon DEF DeallocSession, SessionInv
<1>2. Healthy(Session.m, template, <<>>, {}, <<>>, spilled) /\ TheSession \in Session.m.heap
  BY <1>1, SessionIsCtx, Zenon DEF SessionInv
<1>3. PICK m \in IF template = {} THEN {Session.m} ELSE {srtp_stream_dealloc(Session.m, t, {}) : t \in template} :
        MemoryIs([heap |-> m.heap \ {TheSession}, bad |-> m.bad \/ TheSession \notin m.heap])
  BY Zenon DEF DeallocSession
<1>4. Healthy(m, {}, <<>>, {}, <<>>, spilled) /\ TheSession \in m.heap
  <2>1. CASE template = {}
    BY <1>2, <1>3, <2>1, ZenonT(30)
  <2>2. CASE template # {}
    <3>1. PICK t \in template : m = srtp_stream_dealloc(Session.m, t, {})
      BY <1>3, <2>2, Zenon
    <3>2. \A s \in InList(<<>>) : s.ptrs = Own(s)
      BY Zenon, EmptyList
    <3> QED
      BY Zenon, <1>2, <3>1, <3>2, FreeTemplateLemma
  <2> QED
    BY Zenon, <2>1, <2>2
<1> DEFINE u == [heap |-> m.heap \ {TheSession}, bad |-> m.bad \/ TheSession \notin m.heap]
<1>5. u.heap = m.heap \ {TheSession} /\ u.bad = FALSE
  BY <1>4, Zenon DEF Healthy
<1>6. MemoryIs(u)
  BY Zenon, <1>3
<1> HIDE DEF u
<1>7. Sound(u.heap, {}, InList(<<>>), {}, InList(<<>>))
  BY Zenon, EmptyList DEF Sound
<1>8. Tight(m.heap, {} \cup InList(<<>>) \cup {} \cup InList(<<>>))
      => Tight(u.heap, {} \cup InList(<<>>) \cup {} \cup InList(<<>>))
  BY Zenon, <1>5 DEF Tight
<1>9. Healthy(u, {}, <<>>, {}, <<>>, spilled)
  BY <1>4, <1>5, <1>7, <1>8, Zenon DEF Healthy
<1>10. Healthy(u, template', list', new_template', new_list', spilled')
  BY <1>1, <1>9, Zenon
<1>11. Placed(u)
  BY Zenon, <1>1, <1>5 DEF Placed
<1>12. SessionInv'
  BY <1>6, <1>10, <1>11, InvHolds, Zenon
<1>13. Numbering' \subseteq Numbering
  BY Zenon, <1>1 DEF Numbering
<1> QED
  BY <1>12, <1>13, Zenon DEF Keeps, Follows

(* A stream that does not use the template's first auth function shares    *)
(* nothing with it.                                                        *)
LEMMA NotTemplated ==
    ASSUME NEW h, NEW T, NEW l, NEW N, NEW K, Sound(h, T, InList(l), N, K), NEW t \in T,
           Templated(l, t) = {}, NEW s \in InList(l)
    PROVE  s.ptrs = Own(s)
<1>1. Backed(s, T) /\ Whole(t) /\ \A r \in T : r = t
  BY Zenon DEF Sound
<1>2. SUFFICES ASSUME CloneOf(s, t) PROVE FALSE
  BY Zenon, <1>1 DEF Backed
<1>3. PICK i \in 1..Len(l) : s = l[i]
  BY Zenon DEF InList
<1> DEFINE o == <<t.gen, "rtp_auth", 1>>
<1>4. o \in t.ptrs /\ o[2] = "rtp_auth" /\ o[3] = 1
  BY Zenon, <1>1 DEF Whole
<1> HIDE DEF o
<1>5. o \in s.ptrs
  BY Zenon, <1>2, <1>4 DEF CloneOf, PerKey
<1>6. i \in Templated(l, t)
  BY Zenon, <1>3, <1>4, <1>5 DEF Templated
<1> QED
  BY Zenon, <1>6

LEMMA UpdateTemplateReturnsKeeps ==
    ASSUME SessionInv, UpdateTemplateReturns
    PROVE  Keeps
<1>1. PICK t \in template : /\ Templated(list, t) = {}
                            /\ MemoryIs(srtp_stream_dealloc(Session.m, t, {}))
  BY Zenon DEF UpdateTemplateReturns
<1> DEFINE d == srtp_stream_dealloc(Session.m, t, {})
<1>2. Healthy(Session.m, template, list, new_template, new_list, spilled) /\ TheSession \in Session.m.heap
  BY SessionIsCtx, Zenon DEF SessionInv, UpdateTemplateReturns
<1>3. /\ template' = new_template /\ list' = new_list \o list /\ new_template' = {} /\ new_list' = <<>>
      /\ doing' = "idle" /\ spilled' = spilled
  BY Zenon DEF UpdateTemplateReturns
<1>4. Healthy(d, {}, list, new_template, new_list, spilled) /\ TheSession \in d.heap
  <2>1. \A s \in InList(list) : s.ptrs = Own(s)
    <3>1. Sound(Session.m.heap, template, InList(list), new_template, InList(new_list))
      BY <1>2, Zenon DEF Healthy
    <3> QED
      BY Zenon, <1>1, <3>1, NotTemplated
  <2> QED
    BY Zenon, <1>2, <2>1, FreeTemplateLemma
<1>5. MemoryIs(d)
  BY Zenon, <1>1
<1> HIDE DEF d
<1>6. Healthy(d, template', list', new_template', new_list', spilled')
  BY <1>3, <1>4, Promoted, Zenon
<1>7. Placed(d)
  BY Zenon, <1>3, <1>4 DEF Placed
<1>8. SessionInv'
  BY <1>5, <1>6, <1>7, InvHolds, Zenon
<1>9. Numbering' = Numbering
  <2>1. IsList(new_list) /\ IsList(list) /\ InList(new_list) \cap InList(list) = {}
    BY Zenon, <1>2 DEF Healthy, Sound
  <2>2. InList(list') = InList(new_list) \cup InList(list)
    BY <1>3, <2>1, ListJoin, Zenon
  <2> QED
    BY Zenon, <1>3, <2>2, EmptyList DEF Numbering
<1> QED
  BY <1>8, <1>9, Zenon DEF Keeps, Follows

LEMMA KnownKeeps ==
    ASSUME SessionInv, NEW ssrc \in Ssrc, NEW rtp \in BOOLEAN, NEW dir \in Direction, Known(ssrc, rtp, dir)
    PROVE  Keeps
<1>1. PICK i \in srtp_get_stream(list, ssrc) : list' = [list EXCEPT ![i] = Numbered(Directed(@, dir), rtp)]
  BY Zenon DEF Known
<1> DEFINE s == list[i]
           x == Numbered(Directed(s, dir), rtp)
<1>2. i \in 1..Len(list)
  BY Zenon, GetLemma
<1>3. Healthy(Session.m, template, list, new_template, new_list, spilled) /\ TheSession \in Session.m.heap
  BY SessionIsCtx, ZenonT(30) DEF SessionInv, Known
<1>4. s \in InList(list) /\ IsStream(s)
  BY Zenon, <1>2, <1>3 DEF Healthy, InList
<1>5. list' = [list EXCEPT ![i] = x]
  BY <1>1, <1>2, Zenon
<1>6. Advanced(x, s)
  <2> HIDE DEF s
  <2>1. Advanced(Directed(s, dir), s)
    BY <1>4, DirectedLemma, Zenon
  <2>2. Advanced(x, Directed(s, dir))
    BY <2>1, NumberedLemma, Zenon DEF Advanced
  <2> QED
    BY <1>4, <2>1, <2>2, AdvancedTwice, Zenon
<1> HIDE DEF x
<1>7. Touched(Session.m, template, list, new_template, new_list, spilled, i, x)
  BY <1>2, <1>3, <1>6, RetouchLemma, Zenon DEF Advanced
<1>8. /\ Healthy(Session.m, template, list', new_template, new_list, spilled)
      /\ InList(list') = (InList(list) \ {s}) \cup {x}
  BY <1>5, <1>7, Zenon DEF Touched
<1>9. /\ MemoryIs(Session.m) /\ doing = "idle" /\ doing' = doing /\ spilled' = spilled
      /\ template' = template /\ new_template' = new_template /\ new_list' = new_list
  BY Zenon, SessionIsCtx DEF Known, MemoryIs
<1>10. Healthy(Session.m, template', list', new_template', new_list', spilled')
  BY <1>8, <1>9, Zenon
<1>11. Placed(Session.m)
  BY Zenon, <1>3, <1>9 DEF Placed, SessionInv
<1>12. SessionInv'
  BY <1>9, <1>10, <1>11, InvHolds, Zenon
<1>13. Follows(Numbering, Numbering')
  <2>1. Numbering' \subseteq Numbering \cup {x} /\ s \in Numbering
    BY Zenon, <1>4, <1>8, <1>9 DEF Numbering
  <2>2. x.ssrc = s.ssrc /\ x.index >= s.index /\ x.rtcp >= s.rtcp
    BY <1>6, Zenon DEF Advanced
  <2> QED
    BY <2>1, <2>2, Zenon DEF Follows
<1> QED
  BY <1>12, <1>13, Zenon DEF Keeps

LEMMA UpdateTemplateKeeps ==
    ASSUME SessionInv, ~ spilled, NEW p \in Policies, UpdateTemplate(p)
    PROVE  Keeps
<1> DEFINE g == Fresh(heap, p.type)
<1>0. PICK e \in Failures(p) :
        LET a == srtp_stream_alloc(Session.m, p, g, e[1])
            b == srtp_stream_init(a.m, a.s, p, e[2])
        IN \/ /\ ~ a.ok
              /\ MemoryIs(a.m)
              /\ UNCHANGED <<new_template, doing, spilled>>
           \/ /\ a.ok /\ ~ b.ok
              /\ MemoryIs([heap |-> b.m.heap \ {<<g, "stream", 0>>}, bad |-> b.m.bad])
              /\ spilled' = TRUE
              /\ UNCHANGED <<new_template, doing>>
           \/ /\ a.ok /\ b.ok
              /\ MemoryIs(b.m)
              /\ new_template' = {b.s}
              /\ doing' = "update"
              /\ UNCHANGED spilled
  BY ZenonT(30) DEF UpdateTemplate
<1> DEFINE a == srtp_stream_alloc(Session.m, p, g, e[1])
           b == srtp_stream_init(a.m, a.s, p, e[2])
           u == srtp_stream_dealloc(b.m, b.s, {})
           v == [heap |-> b.m.heap \ {<<g, "stream", 0>>}, bad |-> b.m.bad]
<1>1. /\ doing = "idle" /\ srtp_validate_policy_master_keys(p) /\ Free(heap, p.type) # {}
      /\ template' = template /\ list' = list /\ new_list' = new_list
      /\ new_template = {} /\ new_list = <<>>
  BY Zenon DEF UpdateTemplate, SessionInv
<1>2. Healthy(Session.m, template, list, {}, <<>>, spilled) /\ TheSession \in Session.m.heap
  BY <1>1, SessionIsCtx, Zenon DEF SessionInv
<1>3. p \in Policy /\ e[2] \in Nat
  BY Zenon, PolicyLemma
<1>4. Fine(Session.m, g) /\ g \in Nat \ {0}
  <2>1. g \in Free(Session.m.heap, p.type) /\ Session.m.bad = FALSE
    BY <1>1, <1>2, SessionIsCtx, FreshLemma, Zenon DEF Healthy
  <2> HIDE DEF g
  <2> QED
    BY <2>1, FreeIsFine, Zenon DEF Fine
<1>5. Allocated(a, Session.m, p, g)
  BY <1>1, <1>3, <1>4, AllocLemma, Zenon
<1>6. a.ok => Initialised(b, u, Session.m, p, g)
  <2>1. ASSUME a.ok PROVE Initialised(b, u, Session.m, p, g)
    <3>1. a.s = [Blank(g, p) EXCEPT !.ptrs = Wanted(p, g)] /\ a.m = malloc(Session.m, Wanted(p, g))
      BY <1>5, <2>1, Zenon DEF Allocated
    <3> HIDE DEF a, g
    <3> QED
      BY <1>1, <1>3, <1>4, <3>1, InitLemma, Zenon
  <2> QED
    BY <2>1, Zenon
<1>7. v.heap = b.m.heap \ {<<g, "stream", 0>>} /\ v.bad = b.m.bad
  BY Zenon
<1>8. \/ ~ a.ok /\ MemoryIs(a.m) /\ new_template' = new_template /\ doing' = doing /\ spilled' = spilled
      \/ a.ok /\ ~ b.ok /\ MemoryIs(v) /\ new_template' = new_template /\ doing' = doing /\ spilled' = TRUE
      \/ a.ok /\ b.ok /\ MemoryIs(b.m) /\ new_template' = {b.s} /\ doing' = "update" /\ spilled' = spilled
  BY <1>0, Zenon
<1> HIDE DEF a, b, u, v, g
<1>9. Numbering' \subseteq Numbering
  BY Zenon, <1>1 DEF Numbering
<1>10. SessionInv'
  <2>1. CASE ~ a.ok
    <3>1. a.m.heap = Session.m.heap /\ a.m.bad = FALSE
      BY <1>5, <2>1, Zenon DEF Allocated
    <3>2. MemoryIs(a.m) /\ new_template' = new_template /\ doing' = doing /\ spilled' = spilled
      BY <1>8, <2>1, Zenon
    <3>3. Healthy(a.m, template, list, {}, <<>>, spilled)
      BY <1>2, <3>1, HealthyMemory, Zenon
    <3>4. Healthy(a.m, template', list', new_template', new_list', spilled')
      BY <1>1, <3>2, <3>3, ZenonT(30)
    <3>5. Placed(a.m)
      BY Zenon, <1>1, <1>2, <3>1, <3>2 DEF Placed
    <3> QED
      BY <3>2, <3>4, <3>5, InvHolds, Zenon
  <2>2. CASE a.ok /\ ~ b.ok
    <3>1. Session.m.heap \subseteq b.m.heap /\ b.m.bad = FALSE
      BY <1>6, <2>2, Zenon DEF Initialised
    <3>2. MemoryIs(v) /\ new_template' = new_template /\ doing' = doing /\ spilled' = TRUE
      BY <1>8, <2>2, ZenonT(30)
    <3>3. Session.m.heap \subseteq v.heap /\ v.bad = FALSE
      <4>1. \A o \in Session.m.heap : o[1] # g
        BY <1>4, Zenon DEF Fine
      <4>2. <<g, "stream", 0>>[1] = g
        BY Zenon
      <4>3. <<g, "stream", 0>> \notin Session.m.heap
        BY <4>1, <4>2, Zenon
      <4> QED
        BY Zenon, <1>7, <3>1, <4>3
    <3>4. Sound(v.heap, template, InList(list), {}, InList(<<>>))
      BY <1>2, <3>3, SoundGrows, Zenon DEF Healthy
    <3>5. Healthy(v, template, list, {}, <<>>, TRUE)
      BY <1>2, <3>3, <3>4, Zenon DEF Healthy
    <3>6. Healthy(v, template', list', new_template', new_list', spilled')
      BY <1>1, <3>2, <3>5, ZenonT(30)
    <3>7. Placed(v)
      BY Zenon, <1>1, <1>2, <3>3, <3>2 DEF Placed
    <3> QED
      BY <3>2, <3>6, <3>7, InvHolds, Zenon
  <2>3. CASE a.ok /\ b.ok
    <3>1. /\ b.s = [Blank(g, p) EXCEPT !.ptrs = b.s.ptrs] /\ b.s.ptrs = Own(b.s)
          /\ Wanted(p, g) \subseteq b.s.ptrs
          /\ b.m.heap = Session.m.heap \cup b.s.ptrs /\ b.m.bad = FALSE
      BY <1>6, <2>3, Zenon DEF Initialised
    <3>2. Stands(b.s, b.s, p, g)
      <4>1. "dir_unknown" \in Direction
        BY Zenon DEF Direction
      <4> QED
        BY <1>1, <1>3, <1>4, <3>1, <4>1, MadeLemma, Zenon
    <3>3. IsStream(b.s) /\ Made(b.s) /\ Whole(b.s) /\ b.s.gen = g
      BY <3>2, Zenon DEF Stands
    <3>4. \A o \in Session.m.heap : o[1] # b.s.gen
      BY <1>4, <3>3, Zenon DEF Fine
    <3>5. Healthy(Session.m, {}, <<>>, template, list, spilled)
      BY <1>2, HealthySwap, Zenon
    <3>6. Healthy(b.m, {b.s}, <<>>, template, list, spilled)
      BY <3>1, <3>3, <3>4, <3>5, NewTemplateLemma, Zenon
    <3>7. Healthy(b.m, template, list, {b.s}, <<>>, spilled)
      BY <3>6, HealthySwap, Zenon
    <3>8. MemoryIs(b.m) /\ new_template' = {b.s} /\ doing' = "update" /\ spilled' = spilled
      BY <1>8, <2>3, Zenon
    <3>9. Healthy(b.m, template', list', new_template', new_list', spilled')
      BY <1>1, <3>7, <3>8, Zenon
    <3>10. Placed(b.m)
      BY Zenon, <1>1, <1>2, <3>1, <3>8 DEF Placed
    <3> QED
      BY <3>8, <3>9, <3>10, InvHolds, Zenon
  <2> QED
    BY <2>1, <2>2, <2>3, Zenon
<1> QED
  BY <1>9, <1>10, Zenon DEF Keeps, Follows

(* A clone is a stream of the SSRC it was made for.                        *)
LEMMA CloneIsStream ==
    ASSUME NEW cl, NEW m, NEW t, NEW ssrc \in Ssrc, NEW g, Cloned(cl, m, t, ssrc, g), cl.ok, IsStream(t)
    PROVE  IsStream(cl.s) /\ cl.s.ssrc = ssrc
<1>1. cl.s = [gen |-> g, ssrc |-> ssrc, n |-> t.n, mki |-> t.mki, dir |-> t.dir,
              index |-> 0, rtcp |-> 0, ptrs |-> cl.s.ptrs]
  BY Zenon DEF Cloned
<1>2. t.n \in 1..MaxKeys /\ t.dir \in Direction
  BY ZenonT(30) DEF IsStream
<1> DEFINE s == cl.s
<1>3. /\ s.gen = g /\ s.ssrc = ssrc /\ s.n = t.n /\ s.mki = t.mki /\ s.dir = t.dir
      /\ s.index = 0 /\ s.rtcp = 0
  BY SMTT(30), <1>1
<1>4. s = [gen |-> s.gen, ssrc |-> s.ssrc, n |-> s.n, mki |-> s.mki, ptrs |-> s.ptrs, dir |-> s.dir,
           index |-> s.index, rtcp |-> s.rtcp]
  BY Zenon, <1>1, <1>3
<1> HIDE DEF s
<1>5. s.index \in Nat /\ s.rtcp \in Nat
  BY <1>3
<1>6. IsStream(s) /\ s.ssrc = ssrc
  BY <1>2, <1>3, <1>4, <1>5, Zenon DEF IsStream
<1> QED
  BY Zenon, <1>6 DEF s

(* What a clone that an SSRC of its own needs does to the session.         *)
CloneTaken(m, T, l, N, k, sp, cl, ssrc) ==
    /\ cl.ok \in BOOLEAN
    /\ ~ cl.ok => Healthy(cl.m, T, l, N, k, sp)
    /\ cl.ok => /\ IsStream(cl.s) /\ cl.s.ssrc = ssrc
                /\ \A x : SameMemory(x, cl.s) /\ IsStream(x)
                           => Healthy(cl.m, T, <<x>> \o l, N, k, sp) /\ x \notin InList(l)
    /\ TheSession \in m.heap => TheSession \in cl.m.heap

LEMMA CloneTakenLemma ==
    ASSUME NEW m, NEW T, NEW l, NEW N, NEW k, NEW sp, Healthy(m, T, l, N, k, sp),
           NEW t \in T, NEW ssrc \in Ssrc, NEW type, NEW f, Free(m.heap, type) # {}
    PROVE  CloneTaken(m, T, l, N, k, sp, srtp_stream_clone(m, t, ssrc, Fresh(m.heap, type), f), ssrc)
<1> DEFINE g == Fresh(m.heap, type)
           cl == srtp_stream_clone(m, t, ssrc, g, f)
<1>1. Fine(m, g)
  <2>1. g \in Free(m.heap, type) /\ m.bad = FALSE
    BY FreshLemma, ZenonT(30) DEF Healthy
  <2> HIDE DEF g
  <2> QED
    BY <2>1, FreeIsFine, Zenon
<1>2. t.ptrs \subseteq m.heap /\ IsStream(t)
  <2>1. Sound(m.heap, T, InList(l), N, InList(k))
    BY Zenon DEF Healthy
  <2> QED
    BY Zenon, <2>1 DEF Sound, Healthy
<1> HIDE DEF g
<1>3. Cloned(cl, m, t, ssrc, g)
  BY <1>1, <1>2, CloneLemma, Zenon
<1> HIDE DEF cl
<1>4. cl.ok \in BOOLEAN
  BY <1>3, Zenon DEF Cloned
<1>5. ASSUME cl.ok PROVE IsStream(cl.s) /\ cl.s.ssrc = ssrc
  BY <1>2, <1>3, <1>5, CloneIsStream, Zenon
<1>6. /\ ~ cl.ok => Healthy(cl.m, T, l, N, k, sp)
      /\ cl.ok => \A x : SameMemory(x, cl.s) /\ IsStream(x)
                          => Healthy(cl.m, T, <<x>> \o l, N, k, sp) /\ x \notin InList(l)
      /\ TheSession \in m.heap => TheSession \in cl.m.heap
  BY <1>1, <1>3, ClonedLemma, Zenon
<1> QED
  BY <1>4, <1>5, <1>6, Zenon DEF CloneTaken, cl, g

LEMMA UpdateCloneKeeps ==
    ASSUME SessionInv, UpdateClone
    PROVE  Keeps
<1>1. PICK new \in new_template, i \in 1..Len(list) :
        \E r \in srtp_get_stream(list, list[i].ssrc), k \in CloneFails(new) :
              LET c == srtp_remove_stream(Session, r)
                  cl == srtp_stream_clone(c.m, new, list[i].ssrc, Fresh(c.m.heap, "specific"), k)
                  s == [cl.s EXCEPT !.index = list[i].index, !.rtcp = list[i].rtcp]
              IN /\ Free(c.m.heap, "specific") # {}
                 /\ SessionIs([c EXCEPT !.m = cl.m])
                 /\ new_list' = IF cl.ok THEN <<s>> \o new_list ELSE new_list
                 /\ doing' = IF cl.ok THEN "update" ELSE "undo"
  BY Zenon DEF UpdateClone, Templated
<1>2. PICK r \in srtp_get_stream(list, list[i].ssrc), k \in CloneFails(new) :
              LET c == srtp_remove_stream(Session, r)
                  cl == srtp_stream_clone(c.m, new, list[i].ssrc, Fresh(c.m.heap, "specific"), k)
                  s == [cl.s EXCEPT !.index = list[i].index, !.rtcp = list[i].rtcp]
              IN /\ Free(c.m.heap, "specific") # {}
                 /\ SessionIs([c EXCEPT !.m = cl.m])
                 /\ new_list' = IF cl.ok THEN <<s>> \o new_list ELSE new_list
                 /\ doing' = IF cl.ok THEN "update" ELSE "undo"
  BY <1>1, Zenon
<1> DEFINE c == srtp_remove_stream(Session, r)
           z == list[i]
           cl == srtp_stream_clone(c.m, new, z.ssrc, Fresh(c.m.heap, "specific"), k)
           s == [cl.s EXCEPT !.index = z.index, !.rtcp = z.rtcp]
           c2 == [c EXCEPT !.m = cl.m]
<1>3. /\ Healthy(Session.m, Session.template, Session.list, new_template, new_list, Session.spilled)
      /\ IsCtx(Session) /\ Session.list = list /\ TheSession \in Session.m.heap
      /\ doing = "update" /\ new_template' = new_template
  BY SessionIsCtx, ZenonT(30) DEF SessionInv, UpdateClone
<1>4. z \in InList(list) /\ IsStream(z)
  BY Zenon, <1>3 DEF Healthy, InList
<1>5. Removed(c, Session, r, new_template, new_list)
  <2>1. r \in 1..Len(Session.list)
    BY <1>3, GetLemma, Zenon
  <2> QED
    BY <1>3, <2>1, RemoveLemma, Zenon
<1>6. /\ Free(c.m.heap, "specific") # {} /\ SessionIs(c2)
      /\ new_list' = IF cl.ok THEN <<s>> \o new_list ELSE new_list
      /\ doing' = IF cl.ok THEN "update" ELSE "undo"
  BY <1>2, Zenon
<1> HIDE DEF c, z
<1>7. /\ IsCtx(c)
      /\ Healthy(c.m, c.template, c.list, new_template, new_list, c.spilled)
      /\ TheSession \in c.m.heap
      /\ InList(c.list) \subseteq InList(list)
  BY <1>3, <1>5, Zenon DEF Removed
<1>8. CloneTaken(c.m, new_template, new_list, c.template, c.list, c.spilled, cl, z.ssrc)
  <2>1. Healthy(c.m, new_template, new_list, c.template, c.list, c.spilled)
    BY <1>7, HealthySwap, Zenon
  <2>2. z.ssrc \in Ssrc
    BY <1>4, Zenon DEF IsStream
  <2> QED
    BY <1>6, <2>1, <2>2, CloneTakenLemma, Zenon
<1>9. c2.m = cl.m /\ c2.template = c.template /\ c2.list = c.list /\ c2.spilled = c.spilled
  BY <1>7, Zenon DEF IsCtx
<1> HIDE DEF cl, c2
<1>10. /\ template' = c.template /\ list' = c.list /\ spilled' = c.spilled /\ MemoryIs(cl.m)
  BY <1>6, <1>9, Zenon DEF SessionIs
<1>11. TheSession \in cl.m.heap
  BY <1>7, <1>8, Zenon DEF CloneTaken
<1>12. CASE ~ cl.ok
  <2>1. new_list' = new_list /\ doing' = "undo"
    BY <1>6, <1>12, Zenon
  <2>2. Healthy(cl.m, new_template, new_list, c.template, c.list, c.spilled)
    BY <1>8, <1>12, Zenon DEF CloneTaken
  <2>3. Healthy(cl.m, c.template, c.list, new_template, new_list, c.spilled)
    BY <2>2, HealthySwap, Zenon
  <2>4. Healthy(cl.m, template', list', new_template', new_list', spilled')
    BY <1>3, <1>10, <2>1, <2>3, Zenon
  <2>5. Placed(cl.m)
    BY Zenon, <1>11, <2>1 DEF Placed
  <2>6. SessionInv'
    BY <1>10, <2>4, <2>5, InvHolds, ZenonT(30)
  <2>7. Numbering' \subseteq Numbering
    BY Zenon, <1>7, <1>10, <2>1 DEF Numbering
  <2> QED
    BY <2>6, <2>7, Zenon DEF Keeps, Follows
<1>13. CASE cl.ok
  <2>1. new_list' = <<s>> \o new_list /\ doing' = "update"
    BY <1>6, <1>13, Zenon
  <2>2. IsStream(cl.s) /\ cl.s.ssrc = z.ssrc
    BY <1>8, <1>13, Zenon DEF CloneTaken
  <2>3. Retouched(s, cl.s, cl.s.dir, z.index, z.rtcp)
    <3>1. z.index \in Nat /\ z.rtcp \in Nat
      BY <1>4, Zenon DEF IsStream
    <3> QED
      BY <2>2, <3>1, RetouchedNumbers, Zenon
  <2> HIDE DEF s
  <2>4. IsStream(s) /\ SameMemory(s, cl.s) /\ s.ssrc = z.ssrc /\ s.index = z.index /\ s.rtcp = z.rtcp
    BY <2>2, <2>3, Zenon DEF Retouched
  <2>5. Healthy(cl.m, new_template, <<s>> \o new_list, c.template, c.list, c.spilled) /\ s \notin InList(new_list)
    BY <1>8, <1>13, <2>4, Zenon DEF CloneTaken
  <2>6. Healthy(cl.m, c.template, c.list, new_template, <<s>> \o new_list, c.spilled)
    BY <2>5, HealthySwap, Zenon
  <2>7. Healthy(cl.m, template', list', new_template', new_list', spilled')
    BY <1>3, <1>10, <2>1, <2>6, ZenonT(30)
  <2>8. Placed(cl.m)
    BY Zenon, <1>11, <2>1 DEF Placed
  <2>9. SessionInv'
    BY <1>10, <2>7, <2>8, InvHolds, Zenon
  <2>10. Follows(Numbering, Numbering')
    <3>1. InList(new_list') = InList(new_list) \cup {s}
      BY <1>7, <2>1, <2>5, ListCons, ZenonT(30) DEF Healthy
    <3>2. Numbering' \subseteq Numbering \cup {s} /\ z \in Numbering
      <4>1. Numbering' \subseteq Numbering \cup {s}
        BY Zenon, <1>7, <1>10, <3>1 DEF Numbering
      <4>2. z \in Numbering
        BY Zenon, <1>4 DEF Numbering
      <4> QED
        BY Zenon, <4>1, <4>2
    <3>3. s.ssrc = z.ssrc /\ s.index >= z.index /\ s.rtcp >= z.rtcp
      BY <1>4, <2>4 DEF IsStream
    <3> QED
      BY <3>2, <3>3, Zenon DEF Follows
  <2> QED
    BY <2>9, <2>10, Zenon DEF Keeps
<1> QED
  BY <1>8, <1>12, <1>13, Zenon DEF CloneTaken

(* The template with another direction.                                    *)
LEMMA RetouchTemplateLemma ==
    ASSUME NEW m, NEW T, NEW l, NEW N, NEW k, NEW sp, Healthy(m, T, l, N, k, sp),
           NEW t \in T, NEW x, SameMemory(x, t), IsStream(x)
    PROVE  Healthy(m, {x}, l, N, k, sp)
<1>1. Sound(m.heap, T, InList(l), N, InList(k))
  BY Zenon DEF Healthy
<1>2. /\ Sound(m.heap, {x}, InList(l), N, InList(k))
      /\ Tight(m.heap, T \cup InList(l) \cup N \cup InList(k))
           => Tight(m.heap, {x} \cup InList(l) \cup N \cup InList(k))
  BY <1>1, RetouchTemplate, Zenon
<1>3. \A s \in {x} \cup InList(l) \cup N \cup InList(k) : IsStream(s)
  BY Zenon DEF Healthy
<1> QED
  BY <1>2, <1>3, Zenon DEF Healthy

(* A packet of an SSRC that has no stream: the clone, or nothing, is at    *)
(* the head of the list.                                                   *)
LEMMA CloneKeeps ==
    ASSUME SessionInv, doing = "idle", NEW T, NEW cl, NEW ssrc, NEW x,
           CloneTaken(Session.m, T, list, new_template, new_list, spilled, cl, ssrc),
           cl.ok => IsStream(x) /\ SameMemory(x, cl.s),
           MemoryIs(cl.m), template' = T, list' = IF cl.ok THEN <<x>> \o list ELSE list,
           UNCHANGED <<new_template, new_list, doing, spilled>>
    PROVE  Keeps
<1>1. /\ TheSession \in Session.m.heap /\ new_template' = {} /\ new_list' = <<>>
      /\ Numbering = InList(list) /\ Numbering' = InList(list')
      /\ new_template' = new_template /\ new_list' = new_list /\ spilled' = spilled
  BY Zenon, SessionIsCtx, NumberingIdle, NumberingIdlePrime DEF SessionInv
<1>2. Placed(cl.m)
  <2>1. TheSession \in cl.m.heap
    BY <1>1, Zenon DEF CloneTaken
  <2> QED
    BY Zenon, <1>1, <2>1 DEF Placed
<1>3. CASE ~ cl.ok
  <2>1. list' = list
    BY Zenon, <1>3
  <2>2. Healthy(cl.m, template', list', new_template', new_list', spilled')
    BY <1>1, <1>3, <2>1, Zenon DEF CloneTaken
  <2>3. SessionInv'
    BY <1>2, <2>2, InvHolds, Zenon
  <2> QED
    BY <1>1, <2>1, <2>3, Zenon DEF Keeps, Follows
<1>4. CASE cl.ok
  <2>1. list' = <<x>> \o list
    BY Zenon, <1>4
  <2>2. Healthy(cl.m, T, <<x>> \o list, new_template, new_list, spilled) /\ x \notin InList(list)
    BY <1>4, Zenon DEF CloneTaken
  <2>3. Healthy(cl.m, template', list', new_template', new_list', spilled')
    BY <1>1, <2>1, <2>2, Zenon
  <2>4. SessionInv'
    BY <1>2, <2>3, InvHolds, Zenon
  <2>5. InList(list') = InList(list) \cup {x}
    <3>1. IsList(list)
      BY Zenon DEF SessionInv, Healthy
    <3> QED
      BY <2>1, <2>2, <3>1, ListCons, Zenon
  <2> QED
    BY <1>1, <2>2, <2>4, <2>5, Zenon DEF Keeps, Follows
<1> QED
  BY <1>3, <1>4, ZenonT(30) DEF CloneTaken

LEMMA ProtectKeeps ==
    ASSUME SessionInv, NEW ssrc \in Ssrc, NEW rtp \in BOOLEAN, Protect(ssrc, rtp)
    PROVE  Keeps
<1> DEFINE d == "dir_srtp_sender"
<1>1. d \in Direction
  BY Zenon DEF Direction
<1>2. CASE Known(ssrc, rtp, d)
  BY Zenon, <1>1, <1>2, KnownKeeps
<1>3. CASE ~ Known(ssrc, rtp, d)
  <2>0. PICK t \in template : \E k \in CloneFails(t) :
          LET cl == srtp_stream_clone(Session.m, t, ssrc, Fresh(heap, "specific"), k)
              s == IF rtp THEN [cl.s EXCEPT !.dir = d] ELSE cl.s
          IN /\ MemoryIs(cl.m)
             /\ list' = IF cl.ok THEN <<Numbered(Directed(s, d), rtp)>> \o list ELSE list
    BY <1>3, Zenon DEF Protect
  <2>1. PICK k \in CloneFails(t) :
          LET cl == srtp_stream_clone(Session.m, t, ssrc, Fresh(heap, "specific"), k)
              s == IF rtp THEN [cl.s EXCEPT !.dir = d] ELSE cl.s
          IN /\ MemoryIs(cl.m)
             /\ list' = IF cl.ok THEN <<Numbered(Directed(s, d), rtp)>> \o list ELSE list
    BY <2>0, Zenon
  <2>2. /\ doing = "idle" /\ Free(Session.m.heap, "specific") # {}
        /\ UNCHANGED <<template, new_template, new_list, doing, spilled>>
    BY <1>3, SessionIsCtx, Zenon DEF Protect
  <2> DEFINE cl == srtp_stream_clone(Session.m, t, ssrc, Fresh(Session.m.heap, "specific"), k)
             s == IF rtp THEN [cl.s EXCEPT !.dir = d] ELSE cl.s
             x == Numbered(Directed(s, d), rtp)
  <2>3. MemoryIs(cl.m) /\ list' = IF cl.ok THEN <<x>> \o list ELSE list
    BY <2>1, SessionIsCtx, Zenon
  <2>4. CloneTaken(Session.m, template, list, new_template, new_list, spilled, cl, ssrc)
    <3>1. Healthy(Session.m, template, list, new_template, new_list, spilled)
      BY ZenonT(30) DEF SessionInv
    <3> QED
      BY <2>2, <3>1, CloneTakenLemma, Zenon
  <2> HIDE DEF cl
  <2>5. ASSUME cl.ok PROVE IsStream(x) /\ SameMemory(x, cl.s)
    <3>1. IsStream(cl.s)
      BY <2>4, <2>5, Zenon DEF CloneTaken
    <3>2. IsStream(s) /\ SameMemory(s, cl.s)
      <4>1. CASE rtp
        <5>1. s = [cl.s EXCEPT !.dir = d]
          BY Zenon, <4>1
        <5> HIDE DEF s, d
        <5>2. Retouched(s, cl.s, d, cl.s.index, cl.s.rtcp)
          BY <1>1, <3>1, <5>1, RetouchedDirection, Zenon
        <5> QED
          BY <5>2, Zenon DEF Retouched
      <4>2. CASE ~ rtp
        BY Zenon, <3>1, <4>2 DEF SameMemory
      <4> QED
        BY Zenon, <4>1, <4>2
    <3> HIDE DEF s, d
    <3>3. Advanced(Directed(s, d), s)
      BY <1>1, <3>2, DirectedLemma, Zenon
    <3>4. Advanced(x, Directed(s, d))
      BY <3>3, NumberedLemma, Zenon DEF Advanced
    <3> QED
      BY Zenon, <3>2, <3>3, <3>4 DEF Advanced, SameMemory
  <2> HIDE DEF x
  <2>6. cl.ok => IsStream(x) /\ SameMemory(x, cl.s)
    BY Zenon, <2>5
  <2>7. template' = template /\ UNCHANGED <<new_template, new_list, doing, spilled>>
    BY Zenon, <2>2
  <2> QED
    BY <2>2, <2>3, <2>4, <2>6, <2>7, CloneKeeps, Zenon
<1> QED
  BY Zenon, <1>2, <1>3

LEMMA UnprotectKeeps ==
    ASSUME SessionInv, NEW ssrc \in Ssrc, NEW rtp \in BOOLEAN, Unprotect(ssrc, rtp)
    PROVE  Keeps
<1> DEFINE d == "dir_srtp_receiver"
<1>1. d \in Direction
  BY Zenon DEF Direction
<1>2. CASE Known(ssrc, rtp, d)
  BY Zenon, <1>1, <1>2, KnownKeeps
<1>3. CASE ~ Known(ssrc, rtp, d)
  <2>0. PICK old \in template : \E k \in CloneFails(old) :
          LET t == Directed(old, d)
              cl == srtp_stream_clone(Session.m, t, ssrc, Fresh(heap, "specific"), k)
          IN /\ MemoryIs(cl.m)
             /\ template' = {t}
             /\ list' = IF cl.ok THEN <<Numbered(cl.s, rtp)>> \o list ELSE list
    BY <1>3, Zenon DEF Unprotect
  <2>1. PICK k \in CloneFails(old) :
          LET t == Directed(old, d)
              cl == srtp_stream_clone(Session.m, t, ssrc, Fresh(heap, "specific"), k)
          IN /\ MemoryIs(cl.m)
             /\ template' = {t}
             /\ list' = IF cl.ok THEN <<Numbered(cl.s, rtp)>> \o list ELSE list
    BY <2>0, Zenon
  <2>2. /\ doing = "idle" /\ Free(Session.m.heap, "specific") # {}
        /\ UNCHANGED <<new_template, new_list, doing, spilled>>
    BY <1>3, SessionIsCtx, Zenon DEF Unprotect
  <2> DEFINE t == Directed(old, d)
             cl == srtp_stream_clone(Session.m, t, ssrc, Fresh(Session.m.heap, "specific"), k)
             x == Numbered(cl.s, rtp)
  <2>3. MemoryIs(cl.m) /\ template' = {t} /\ list' = IF cl.ok THEN <<x>> \o list ELSE list
    BY <2>1, SessionIsCtx, Zenon
  <2>4. CloneTaken(Session.m, {t}, list, new_template, new_list, spilled, cl, ssrc)
    <3>1. Healthy(Session.m, template, list, new_template, new_list, spilled)
      BY Zenon DEF SessionInv
    <3>2. IsStream(old)
      BY Zenon, <3>1 DEF Healthy
    <3>3. Advanced(t, old)
      BY <1>1, <3>2, DirectedLemma, Zenon
    <3> HIDE DEF t, d
    <3>4. Healthy(Session.m, {t}, list, new_template, new_list, spilled)
      BY <3>1, <3>3, RetouchTemplateLemma, Zenon DEF Advanced
    <3>5. t \in {t}
      BY Zenon
    <3> QED
      BY <2>2, <3>4, <3>5, CloneTakenLemma, Zenon
  <2> HIDE DEF cl
  <2>5. cl.ok => IsStream(x) /\ SameMemory(x, cl.s)
    <3>1. cl.ok => IsStream(cl.s)
      BY <2>4, Zenon DEF CloneTaken
    <3> QED
      BY <3>1, NumberedLemma, Zenon DEF Advanced
  <2> HIDE DEF x, t, d
  <2> QED
    BY <2>2, <2>3, <2>4, <2>5, CloneKeeps, Zenon
<1> QED
  BY Zenon, <1>2, <1>3

LEMMA StepKeeps ==
    ASSUME SessionInv, SessionNext
    PROVE  Keeps
<1>0. ~ spilled
  BY Zenon DEF SessionNext
<1>1. CASE Create \/ CreateReturns \/ Dealloc
  BY Zenon, <1>1, CreateKeeps
<1>2. CASE \E p \in Policies : AddStream(p) \/ UpdateStream(p) \/ UpdateTemplate(p)
  BY <1>0, <1>2, AddKeeps, UpdateKeeps, UpdateTemplateKeeps, Zenon
<1>3. CASE UpdateClone
  BY Zenon, <1>3, UpdateCloneKeeps
<1>4. CASE UpdateTemplateReturns
  BY Zenon, <1>4, UpdateTemplateReturnsKeeps
<1>5. CASE UndoClone
  BY Zenon, <1>5, UndoCloneKeeps
<1>6. CASE UndoTemplate
  BY Zenon, <1>6, UndoTemplateKeeps
<1>7. CASE \E s \in Ssrc : RemoveStream(s)
  BY <1>0, <1>7, RemoveKeeps, Zenon
<1>8. CASE \E s \in Ssrc, rtp \in BOOLEAN : Protect(s, rtp) \/ Unprotect(s, rtp)
  BY <1>8, ProtectKeeps, UnprotectKeeps, Zenon
<1>9. CASE DeallocStream
  BY Zenon, <1>9, DeallocStreamKeeps
<1>10. CASE DeallocSession
  BY Zenon, <1>10, DeallocSessionKeeps
<1> QED
  BY <1>1, <1>2, <1>3, <1>4, <1>5, <1>6, <1>7, <1>8, <1>9, <1>10, ZenonT(30) DEF SessionNext

LEMMA StutterKeepsSession ==
    ASSUME SessionInv, UNCHANGED sessionVars
    PROVE  SessionInv'
<1>1. /\ template' = template /\ list' = list /\ new_template' = new_template /\ new_list' = new_list
      /\ doing' = doing /\ heap' = heap /\ bad' = bad /\ spilled' = spilled
  BY Zenon DEF sessionVars
<1>2. MemoryIs(Session.m)
  BY Zenon, <1>1, SessionIsCtx DEF MemoryIs
<1>3. Healthy(Session.m, template', list', new_template', new_list', spilled')
  BY <1>1, Zenon DEF SessionInv
<1>4. Placed(Session.m)
  BY <1>1, SessionIsCtx, Zenon DEF SessionInv, Placed
<1> QED
  BY <1>2, <1>3, <1>4, InvHolds, Zenon

(* The inductive invariant of the session holds: every stream owns its     *)
(* objects alone or shares them with the template it was cloned from.      *)
THEOREM SessionInvariant == SessionSpec => []SessionInv
<1>1. SessionInit => SessionInv
  BY Zenon, SessionInvInit
<1>2. SessionInv /\ [SessionNext]_sessionVars => SessionInv'
  BY StepKeeps, StutterKeepsSession, Zenon DEF Keeps
<1> QED
  BY <1>1, <1>2, PTL DEF SessionSpec

LEMMA InvImpliesTypeOK == SessionInv => SessionTypeOK
<1> SUFFICES ASSUME SessionInv PROVE SessionTypeOK
  BY Zenon
<1>1. /\ Healthy(Session.m, template, list, new_template, new_list, spilled)
      /\ doing \in {"closed", "create", "idle", "update", "undo", "close"}
  BY Zenon DEF SessionInv
<1>2. \A s, t \in template : s = t
  <2>1. Sound(Session.m.heap, template, InList(list), new_template, InList(new_list))
    BY <1>1, Zenon DEF Healthy
  <2> QED
    BY <2>1, Zenon DEF Sound
<1>3. \A s \in Streams : /\ s.ssrc \in Ssrc
                         /\ s.n \in 1..MaxKeys
                         /\ s.dir \in Direction
                         /\ s.index \in Nat /\ s.rtcp \in Nat
  BY <1>1, Zenon DEF Healthy, IsStream, Streams
<1>4. bad \in BOOLEAN /\ spilled \in BOOLEAN
  BY <1>1, SessionIsCtx, Zenon DEF Healthy
<1> QED
  BY <1>1, <1>2, <1>3, <1>4, Zenon DEF SessionTypeOK

(* The session's variables keep their types.                               *)
THEOREM SessionTypeCorrect == SessionSpec => []SessionTypeOK
BY SessionInvariant, InvImpliesTypeOK, PTL

LEMMA InvImpliesOwned == SessionInv => StreamMemoryIsOwned
<1> SUFFICES ASSUME SessionInv PROVE StreamMemoryIsOwned
  BY Zenon
<1>1. /\ Healthy(Session.m, template, list, new_template, new_list, spilled)
      /\ TheSession \in heap <=> doing # "closed"
  BY Zenon DEF SessionInv
<1>2. ~ bad
  BY <1>1, SessionIsCtx, Zenon DEF Healthy
<1>3. \A s \in Streams : s.ptrs \subseteq heap
  <2>1. Sound(heap, template, InList(list), new_template, InList(new_list))
    BY <1>1, SessionIsCtx, Zenon DEF Healthy
  <2> QED
    BY <2>1, Zenon DEF Sound, Streams
<1>4. Held \subseteq heap
  <2>1. ASSUME NEW o \in Held PROVE o \in heap
    <3>1. (\E s \in Streams : o \in s.ptrs) \/ (o = TheSession /\ doing # "closed")
      BY Zenon DEF Held
    <3> QED
      BY <1>1, <1>3, <3>1, Zenon
  <2> QED
    BY Zenon, <2>1
<1>5. ASSUME ~ spilled PROVE heap \subseteq Held
  <2>1. Tight(heap, Streams)
    BY <1>1, <1>5, SessionIsCtx, Zenon DEF Healthy, Streams
  <2>2. ASSUME NEW o \in heap PROVE o \in Held
    <3>1. CASE o = TheSession
      <4>1. doing # "closed"
        BY <1>1, <3>1, Zenon
      <4>2. TheSession \in IF doing = "closed" THEN {} ELSE {TheSession}
        BY <4>1, Zenon
      <4> QED
        BY <3>1, <4>2, Zenon DEF Held
    <3>2. CASE \E s \in Streams : o \in s.ptrs
      BY Zenon, <3>2 DEF Held
    <3> QED
      BY <2>1, <3>1, <3>2, Zenon DEF Tight
  <2> QED
    BY Zenon, <2>2
<1> QED
  BY <1>2, <1>4, <1>5, Zenon DEF StreamMemoryIsOwned

(* By whatever sequence of srtp_create, srtp_add_stream, srtp_update_stream,*)
(* srtp_remove_stream, cloning and srtp_dealloc, with any allocation       *)
(* failing, srtp_stream_dealloc frees no object twice and none that a      *)
(* stream still points to, and only the two error paths marked spilled     *)
(* lose memory, for any number of keys and streams.                        *)
THEOREM SessionMemoryIsOwned == SessionSpec => []StreamMemoryIsOwned
BY SessionInvariant, InvImpliesOwned, PTL

(* A step that follows sets no SSRC back.                                  *)
LEMMA FollowsOnward ==
    ASSUME NEW A, NEW B, Follows(A, B), NoTwins(A), NoTwins(B),
           \A s \in A : s.index \in Nat /\ s.rtcp \in Nat,
           NEW s \in A, NEW t \in B, s.ssrc = t.ssrc
    PROVE  t.index >= s.index /\ t.rtcp >= s.rtcp
<1>1. s.index >= s.index /\ s.rtcp >= s.rtcp
  OBVIOUS
<1>2. CASE t \in A
  BY <1>1, <1>2, Zenon DEF NoTwins
<1>3. CASE B \subseteq A
  BY Zenon, <1>2, <1>3
<1>4. CASE \E x : x \notin A /\ B = A \cup {x}
  <2>1. PICK x : x \notin A /\ B = A \cup {x}
    BY Zenon, <1>4
  <2>2. s \in B
    BY Zenon, <2>1
  <2>3. s = t
    BY <2>2, Zenon DEF NoTwins
  <2> QED
    BY Zenon, <1>1, <2>3
<1>5. CASE \E r \in A : \E x : /\ B \subseteq A \cup {x}
                               /\ x.ssrc = r.ssrc /\ x.index >= r.index /\ x.rtcp >= r.rtcp
  <2>1. PICK r \in A : \E x : /\ B \subseteq A \cup {x}
                              /\ x.ssrc = r.ssrc /\ x.index >= r.index /\ x.rtcp >= r.rtcp
    BY Zenon, <1>5
  <2>2. PICK x : /\ B \subseteq A \cup {x}
                 /\ x.ssrc = r.ssrc /\ x.index >= r.index /\ x.rtcp >= r.rtcp
    BY Zenon, <2>1
  <2>3. CASE t = x
    <3>1. r = s
      BY <2>2, <2>3, Zenon DEF NoTwins
    <3> QED
      BY Zenon, <2>2, <2>3, <3>1
  <2> QED
    BY Zenon, <1>2, <2>2, <2>3
<1> QED
  BY <1>3, <1>4, <1>5, Zenon DEF Follows

LEMMA NumberingNat == SessionInv => \A s \in Numbering : s.index \in Nat /\ s.rtcp \in Nat
BY InvImpliesTypeOK, Zenon DEF SessionTypeOK, Numbering, Streams

(* update_stream and update_template_streams hand the RTP index and the    *)
(* SRTCP replay database of a stream on to the one that replaces it: no    *)
(* step sets the numbering of an SSRC back.                                *)
THEOREM SessionIndexNeverFallsBack == SessionSpec => IndexNeverFallsBack
<1> DEFINE Onward == NoTwins(Numbering) /\ NoTwins(Numbering') =>
                       \A s \in Numbering, t \in Numbering' :
                          s.ssrc = t.ssrc => t.index >= s.index /\ t.rtcp >= s.rtcp
<1>1. SessionInv /\ SessionNext => Onward
  <2>1. SUFFICES ASSUME SessionInv, SessionNext, NoTwins(Numbering), NoTwins(Numbering'),
                        NEW s \in Numbering, NEW t \in Numbering', s.ssrc = t.ssrc
                 PROVE  t.index >= s.index /\ t.rtcp >= s.rtcp
    BY Zenon
  <2>2. Follows(Numbering, Numbering')
    BY <2>1, StepKeeps, Zenon DEF Keeps
  <2>3. \A r \in Numbering : r.index \in Nat /\ r.rtcp \in Nat
    BY <2>1, NumberingNat, Zenon
  <2> QED
    BY <2>1, <2>2, <2>3, FollowsOnward, Zenon
<1>2. SessionInv /\ [SessionNext]_sessionVars => [Onward]_sessionVars
  BY <1>1, Zenon
<1> HIDE DEF Onward
<1>3. SessionSpec => [][Onward]_sessionVars
  BY <1>2, SessionInvariant, PTL DEF SessionSpec
<1> QED
  BY Zenon, <1>3 DEF IndexNeverFallsBack, Onward
============================================================================
