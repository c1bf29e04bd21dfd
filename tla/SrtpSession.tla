---------------------------- MODULE SrtpSession ----------------------------
(***************************************************************************)
(* The stream side of libsrtp (libsrtp/srtp/srtp.c): the streams of one    *)
(* session, the memory they own and the memory the clones of the template  *)
(* share with it, under allocations that may fail at any point.            *)
(*                                                                         *)
(* A heap object is <<generation, field, master key>>: the generation is   *)
(* the stream whose allocation made it, so the field of a stream that      *)
(* points to an object is the object's own field, and two streams share a  *)
(* pointer exactly when both hold the object.  The loops over streams of   *)
(* srtp_create, srtp_dealloc and update_template_streams take a step for   *)
(* each stream.                                                            *)
(***************************************************************************)
EXTENDS Integers, Sequences

CONSTANTS Ssrc,         \* SSRC values on the wire
          MaxKeys,      \* SRTP_MAX_NUM_MASTER_KEYS
          Policies,     \* the policies the callers use
          MaxStreams,   \* bound: streams of the list alive at once
          MaxPackets    \* bound: packets counted by a stream

VARIABLES template,     \* session->stream_template, a set of at most one stream
          list,         \* session->stream_list
          new_template, \* update_template_streams: new_stream_template
          new_list,     \* and new_stream_list
          doing,        \* the call in progress
          heap,         \* the objects that are allocated
          bad,          \* some free was handed an object that was not allocated
          spilled       \* ghost: an error path that frees less than it allocated was taken

sessionVars == <<template, list, new_template, new_list, doing, heap, bad, spilled>>

(* srtp_policy_t: the SSRC selector, the number of master keys (1 where    *)
(* the policy has a single key), whether all of them are given and none    *)
(* has an MKI longer than SRTP_MAX_MKI_LEN, whether they have MKIs and     *)
(* whether header extensions are encrypted.                                *)
Policy == [type : {"any_outbound", "any_inbound", "specific", "undefined"}, ssrc : Ssrc,
           num_master_keys : Nat, keys_given : BOOLEAN, mki : BOOLEAN, enc_xtn_hdr : BOOLEAN]

ASSUME SessionAssumption ==
    /\ MaxKeys \in Nat /\ MaxStreams \in Nat /\ MaxPackets \in Nat
    /\ Policies \subseteq Policy

srtp_validate_policy_master_keys(p) == p.num_master_keys \in 1..MaxKeys /\ p.keys_given

PerKey == {"rtp_cipher", "rtp_auth", "rtp_xtn_hdr_cipher", "rtcp_cipher", "rtcp_auth", "limit"}

Direction == {"dir_unknown", "dir_srtp_sender", "dir_srtp_receiver"}

TheSession == <<0, "session", 0>>

(* The names of generations: two for the template and its successor, the   *)
(* others for the streams of the list.                                     *)
Generations(type) == IF type \in {"any_outbound", "any_inbound"} THEN {1, 2} ELSE 3..(2 + MaxStreams)

Free(h, type) == {g \in Generations(type) : \A o \in h : o[1] # g}

Fresh(h, type) == CHOOSE g \in Free(h, type) : TRUE

----------------------------------------------------------------------------
(* Freeing.  A stream hands back every object it points to, except those   *)
(* that are also the template's: of the per-key objects when both have as  *)
(* many master keys, and of the extension list always.                     *)
Released(s, t) ==
    {o \in s.ptrs : ~ \E tt \in t : /\ o \in tt.ptrs
                                    /\ \/ o[2] = "enc_xtn_hdr"
                                       \/ o[2] \in PerKey /\ s.n = tt.n}

malloc(m, objects) == [heap |-> m.heap \cup objects, bad |-> m.bad]

srtp_stream_dealloc(m, s, t) ==
    [heap |-> m.heap \ Released(s, t), bad |-> m.bad \/ ~ Released(s, t) \subseteq m.heap]

(* What srtp_stream_alloc allocates for generation g, ...                  *)
Wanted(p, g) ==
    LET keys == 1..p.num_master_keys
    IN {<<g, "stream", 0>>, <<g, "session_keys", 0>>}
       \cup {<<g, f, i>> : f \in {"rtp_cipher", "rtp_auth", "rtcp_cipher", "rtcp_auth", "limit"}, i \in keys}
       \cup IF p.enc_xtn_hdr
            THEN {<<g, "enc_xtn_hdr", 0>>} \cup {<<g, "rtp_xtn_hdr_cipher", i>> : i \in keys}
            ELSE {}

(* ... and in which order.                                                 *)
Turn(p, o) ==
    LET i == o[3]
        xtn == 3 + 5 * p.num_master_keys
    IN CASE o[2] = "stream" -> 1
         [] o[2] = "session_keys" -> 2
         [] o[2] = "rtp_cipher" -> 5 * i - 2
         [] o[2] = "rtp_auth" -> 5 * i - 1
         [] o[2] = "rtcp_cipher" -> 5 * i
         [] o[2] = "rtcp_auth" -> 5 * i + 1
         [] o[2] = "limit" -> 5 * i + 2
         [] o[2] = "enc_xtn_hdr" -> xtn
         [] OTHER -> xtn + i

(* No allocation or step fails.                                            *)
Never == 0

Blank(g, p) == [gen |-> g, ssrc |-> p.ssrc, n |-> p.num_master_keys, mki |-> p.mki, ptrs |-> {},
                dir |-> "dir_unknown", index |-> 0, rtcp |-> 0]

(* srtp_stream_alloc: at the first failure everything allocated so far is  *)
(* given back by srtp_stream_dealloc(str, NULL).                           *)
srtp_stream_alloc(m, p, g, k) ==
    LET s == [Blank(g, p) EXCEPT !.ptrs = {o \in Wanted(p, g) : k = Never \/ Turn(p, o) < k}]
        got == malloc(m, s.ptrs)
        ok == s.ptrs = Wanted(p, g)
    IN [ok |-> ok, s |-> s, m |-> IF ok THEN got ELSE srtp_stream_dealloc(got, s, {})]

(* srtp_stream_init: the replay bitmask, then per master key its MKI and   *)
(* the key derivation.  The steps that can fail are numbered: 1 a window   *)
(* size out of range or no bitmask, 2 allow_repeat_tx neither 0 nor 1, and *)
(* for key i 3i its MKI, 3i+1 the KDF's cipher, 3i+2 a cipher or auth      *)
(* initialisation, after which the KDF's cipher is not given back.  Every  *)
(* failure after the bitmask gives it back.                                *)
InitSteps(p) ==
    {1, 2} \cup {3 * i + r : i \in 1..p.num_master_keys, r \in IF p.mki THEN 0..2 ELSE 1..2}

(* What it has allocated when step f fails.                                *)
MkiIds(p, g, f) == {<<g, "mki_id", i>> : i \in {j \in 1..p.num_master_keys : p.mki /\ (f = Never \/ 3 * j < f)}}

KdfCipher(g, f) == IF f > 2 /\ f % 3 = 2 THEN {<<g, "kdf", f \div 3>>} ELSE {}

Bitmask(g, f) == IF f = Never THEN {<<g, "bitmask", 0>>} ELSE {}

srtp_stream_init(m, s, p, f) ==
    LET kept == MkiIds(p, s.gen, f) \cup Bitmask(s.gen, f)
    IN [ok |-> f = Never,
        spilled |-> KdfCipher(s.gen, f) # {},
        s |-> [s EXCEPT !.ptrs = @ \cup kept],
        m |-> malloc(m, kept \cup KdfCipher(s.gen, f))]

(* Where the making of a stream may fail: <<its allocation, its step>>.    *)
Failures(p) ==
    {<<Never, Never>>} \cup {<<Turn(p, o), Never>> : o \in Wanted(p, 0)} \cup {<<Never, f>> : f \in InitSteps(p)}

(* srtp_stream_clone: the struct, its key array, the MKIs and the bitmask  *)
(* are the clone's own; ciphers, auths, limits and the extension list are  *)
(* the template's; the indices start at 0 and the direction is copied.     *)
CloneWanted(t, g) ==
    {<<g, "stream", 0>>, <<g, "session_keys", 0>>, <<g, "bitmask", 0>>}
    \cup IF t.mki THEN {<<g, "mki_id", i>> : i \in 1..t.n} ELSE {}

CloneTurn(t, o) ==
    CASE o[2] = "stream" -> 1
      [] o[2] = "session_keys" -> 2
      [] o[2] = "mki_id" -> 2 + o[3]
      [] o[2] = "bitmask" -> IF t.mki THEN 3 + t.n ELSE 3

CloneFails(t) == {Never} \cup {CloneTurn(t, o) : o \in CloneWanted(t, 0)}

srtp_stream_clone(m, t, ssrc, g, k) ==
    LET own == {o \in CloneWanted(t, g) : k = Never \/ CloneTurn(t, o) < k}
        ok == own = CloneWanted(t, g)
        keys == IF k = Never \/ k > 2 THEN {o \in t.ptrs : o[2] \in PerKey} ELSE {}
        xtn == IF ok THEN {o \in t.ptrs : o[2] = "enc_xtn_hdr"} ELSE {}
        got == malloc(m, own)
        s == [gen |-> g, ssrc |-> ssrc, n |-> t.n, mki |-> t.mki, dir |-> t.dir, index |-> 0, rtcp |-> 0,
              ptrs |-> own \cup keys \cup xtn]
    IN [ok |-> ok, s |-> s, m |-> IF ok THEN got ELSE srtp_stream_dealloc(got, s, {t})]

----------------------------------------------------------------------------
(* The stream list.                                                        *)
srtp_get_stream(l, ssrc) == {i \in 1..Len(l) : l[i].ssrc = ssrc /\ \A j \in 1..(i - 1) : l[j].ssrc # ssrc}

Without(l, i) == SubSeq(l, 1, i - 1) \o SubSeq(l, i + 1, Len(l))

(* srtp_add_stream on a session c: a wildcard policy sets the template     *)
(* once, a specific one goes to the head of the list, whether or not its   *)
(* SSRC is there already.                                                  *)
srtp_add_stream(c, p, g, e) ==
    LET a == srtp_stream_alloc(c.m, p, g, e[1])
        b == srtp_stream_init(a.m, a.s, p, e[2])
        refused == p.type = "undefined" \/ (p.type # "specific" /\ c.template # {})
        dir == IF p.type = "any_outbound" THEN "dir_srtp_sender" ELSE "dir_srtp_receiver"
    IN IF ~ srtp_validate_policy_master_keys(p) THEN [ok |-> FALSE, c |-> c]
       ELSE IF ~ a.ok THEN [ok |-> FALSE, c |-> [c EXCEPT !.m = a.m]]
       ELSE IF ~ b.ok \/ refused
            THEN [ok |-> FALSE, c |-> [c EXCEPT !.m = srtp_stream_dealloc(b.m, b.s, {}),
                                                !.spilled = @ \/ b.spilled]]
       ELSE IF p.type = "specific"
            THEN [ok |-> TRUE, c |-> [c EXCEPT !.m = b.m, !.list = <<b.s>> \o @]]
       ELSE [ok |-> TRUE, c |-> [c EXCEPT !.m = b.m, !.template = {[b.s EXCEPT !.dir = dir]}]]

(* srtp_remove_stream of the stream at place i.                            *)
srtp_remove_stream(c, i) ==
    [c EXCEPT !.list = Without(@, i), !.m = srtp_stream_dealloc(@, c.list[i], c.template)]

(* Mutant: the new stream starts at index 0.                               *)
update_stream_FromZero(c, i, p, e) ==
    LET r == srtp_remove_stream(c, i) IN srtp_add_stream(r, p, Fresh(r.m.heap, p.type), e)

(* update_stream of the stream at place i: remove, add, then put the old   *)
(* packet index and SRTCP replay database into the new stream; its RTP     *)
(* bitmask is a fresh one.                                                 *)
update_stream(c, i, p, e) ==
    LET r == srtp_remove_stream(c, i)
        a == srtp_add_stream(r, p, Fresh(r.m.heap, p.type), e)
    IN IF a.ok THEN [a EXCEPT !.c.list[1].index = c.list[i].index, !.c.list[1].rtcp = c.list[i].rtcp]
       ELSE a

----------------------------------------------------------------------------
Session == [m |-> [heap |-> heap, bad |-> bad], template |-> template, list |-> list,
            spilled |-> spilled]

MemoryIs(m) == heap' = m.heap /\ bad' = m.bad

SessionIs(c) ==
    /\ MemoryIs(c.m)
    /\ template' = c.template
    /\ list' = c.list
    /\ spilled' = c.spilled

SessionInit ==
    /\ template = {}
    /\ list = <<>>
    /\ new_template = {}
    /\ new_list = <<>>
    /\ doing = "closed"
    /\ heap = {}
    /\ bad = FALSE
    /\ spilled = FALSE

(* srtp_create, which adds a stream for each policy it is given ...        *)
Create ==
    /\ doing = "closed"
    /\ heap' = heap \cup {TheSession}
    /\ doing' = "create"
    /\ UNCHANGED <<template, list, new_template, new_list, bad, spilled>>

CreateReturns ==
    /\ doing = "create"
    /\ doing' = "idle"
    /\ UNCHANGED <<template, list, new_template, new_list, heap, bad, spilled>>

(* ... and gives everything back when one of them fails; or the caller     *)
(* adds one.                                                               *)
AddStream(p) ==
    /\ doing \in {"create", "idle"}
    /\ Free(heap, p.type) # {}
    /\ \E e \in Failures(p) :
         LET r == srtp_add_stream(Session, p, Fresh(heap, p.type), e)
         IN /\ SessionIs(r.c)
            /\ doing' = IF doing = "create" /\ ~ r.ok THEN "close" ELSE doing
    /\ UNCHANGED <<new_template, new_list>>

RemoveStream(ssrc) ==
    /\ doing = "idle"
    /\ \E i \in srtp_get_stream(list, ssrc) : SessionIs(srtp_remove_stream(Session, i))
    /\ UNCHANGED <<new_template, new_list, doing>>

UpdateStream(p) ==
    /\ doing = "idle"
    /\ srtp_validate_policy_master_keys(p)
    /\ p.type = "specific"
    /\ \E i \in srtp_get_stream(list, p.ssrc), e \in Failures(p) :
         /\ Free(srtp_remove_stream(Session, i).m.heap, p.type) # {}
         /\ SessionIs(update_stream(Session, i, p, e).c)
    /\ UNCHANGED <<new_template, new_list, doing>>

(* update_template_streams: a new template, ...  If it does not initialise *)
(* only its struct is freed.                                               *)
UpdateTemplate(p) ==
    /\ doing = "idle"
    /\ srtp_validate_policy_master_keys(p)
    /\ p.type \in {"any_outbound", "any_inbound"}
    /\ template # {}
    /\ Free(heap, p.type) # {}
    /\ \E e \in Failures(p) :
         LET g == Fresh(heap, p.type)
             a == srtp_stream_alloc(Session.m, p, g, e[1])
             b == srtp_stream_init(a.m, a.s, p, e[2])
         IN \/ /\ ~ a.ok
               /\ MemoryIs(a.m)
               /\ UNCHANGED <<new_template, doing, spilled>>
            \/ /\ a.ok /\ ~ b.ok
               /\ MemoryIs([heap |-> b.m.heap \ {<<g, "stream", 0>>}, bad |-> b.m.bad])
               /\ spilled' = TRUE
               /\ UNCHANGED <<new_template, doing>>
            \/ /\ a.ok /\ b.ok
               /\ MemoryIs(b.m)
               /\ new_template' = {b.s}
               /\ doing' = "update"
               /\ UNCHANGED spilled
    /\ UNCHANGED <<template, list, new_list>>

(* The streams that use the template's first auth function.                *)
Templated(l, t) == {i \in 1..Len(l) : \E o \in l[i].ptrs \cap t.ptrs : o[2] = "rtp_auth" /\ o[3] = 1}

(* ... then the first of the streams that use the old one is removed, by   *)
(* its SSRC, and a clone of the new template takes over its indices; ...   *)
UpdateClone ==
    /\ doing = "update"
    /\ \E t \in template, new \in new_template : \E i \in Templated(list, t) :
         /\ \A j \in Templated(list, t) : i <= j
         /\ \E r \in srtp_get_stream(list, list[i].ssrc), k \in CloneFails(new) :
              LET c == srtp_remove_stream(Session, r)
                  cl == srtp_stream_clone(c.m, new, list[i].ssrc, Fresh(c.m.heap, "specific"), k)
                  s == [cl.s EXCEPT !.index = list[i].index, !.rtcp = list[i].rtcp]
              IN /\ Free(c.m.heap, "specific") # {}
                 /\ SessionIs([c EXCEPT !.m = cl.m])
                 /\ new_list' = IF cl.ok THEN <<s>> \o new_list ELSE new_list
                 /\ doing' = IF cl.ok THEN "update" ELSE "undo"
    /\ UNCHANGED new_template

(* Mutant: the streams keep pointing to the old template. *)
UpdateTemplateReturns_Early ==
    /\ doing = "update"
    /\ \E t \in template : MemoryIs(srtp_stream_dealloc(Session.m, t, {}))
    /\ template' = new_template
    /\ list' = new_list \o list
    /\ new_template' = {}
    /\ new_list' = <<>>
    /\ doing' = "idle"
    /\ UNCHANGED spilled

(* ... when none is left, the old template is freed and the clones are put *)
(* before the streams that are not the template's.                         *)
UpdateTemplateReturns ==
    /\ doing = "update"
    /\ \E t \in template : /\ Templated(list, t) = {}
                           /\ MemoryIs(srtp_stream_dealloc(Session.m, t, {}))
    /\ template' = new_template
    /\ list' = new_list \o list
    /\ new_template' = {}
    /\ new_list' = <<>>
    /\ doing' = "idle"
    /\ UNCHANGED spilled

(* After a clone that failed the new ones are freed, and the new template; *)
(* the streams removed until then are gone.                                *)
UndoClone ==
    /\ doing = "undo"
    /\ new_list # <<>>
    /\ MemoryIs(srtp_stream_dealloc(Session.m, Head(new_list), new_template))
    /\ new_list' = Tail(new_list)
    /\ UNCHANGED <<template, list, new_template, doing, spilled>>

UndoTemplate ==
    /\ doing = "undo"
    /\ new_list = <<>>
    /\ \E new \in new_template : MemoryIs(srtp_stream_dealloc(Session.m, new, {}))
    /\ new_template' = {}
    /\ doing' = "idle"
    /\ UNCHANGED <<template, list, new_list, spilled>>

(* srtp_protect or srtp_protect_rtcp up to the direction check: the stream *)
(* of the SSRC, else a clone of the template; the index then moves.        *)
Numbered(s, rtp) == IF rtp THEN [s EXCEPT !.index = @ + 1] ELSE [s EXCEPT !.rtcp = @ + 1]

(* Mutant: a stream used both ways has a direction of its own. *)
Directed_Both(s, d) == IF s.dir \in {"dir_unknown", d} THEN [s EXCEPT !.dir = d] ELSE [s EXCEPT !.dir = "dir_both"]

Directed(s, d) == IF s.dir = "dir_unknown" THEN [s EXCEPT !.dir = d] ELSE s

(* A packet of the SSRC's stream.                                          *)
Known(ssrc, rtp, dir) ==
    /\ doing = "idle"
    /\ \E i \in srtp_get_stream(list, ssrc) :
         /\ list[i].index + list[i].rtcp < MaxPackets
         /\ list' = [list EXCEPT ![i] = Numbered(Directed(@, dir), rtp)]
    /\ UNCHANGED <<template, new_template, new_list, doing, heap, bad, spilled>>

Protect(ssrc, rtp) ==
    \/ Known(ssrc, rtp, "dir_srtp_sender")
    \/ /\ doing = "idle"
       /\ srtp_get_stream(list, ssrc) = {}
       /\ Free(heap, "specific") # {}
       /\ \E t \in template : \E k \in CloneFails(t) :
            LET cl == srtp_stream_clone(Session.m, t, ssrc, Fresh(heap, "specific"), k)
                s == IF rtp THEN [cl.s EXCEPT !.dir = "dir_srtp_sender"] ELSE cl.s
            IN /\ MemoryIs(cl.m)
               /\ list' = IF cl.ok THEN <<Numbered(Directed(s, "dir_srtp_sender"), rtp)>> \o list ELSE list
       /\ UNCHANGED <<template, new_template, new_list, doing, spilled>>

(* srtp_unprotect or srtp_unprotect_rtcp of an authentic packet: with no   *)
(* stream for the SSRC the template is the provisional one, its direction  *)
(* is set, and only then is it cloned.                                     *)
Unprotect(ssrc, rtp) ==
    \/ Known(ssrc, rtp, "dir_srtp_receiver")
    \/ /\ doing = "idle"
       /\ srtp_get_stream(list, ssrc) = {}
       /\ Free(heap, "specific") # {}
       /\ \E old \in template : \E k \in CloneFails(old) :
            LET t == Directed(old, "dir_srtp_receiver")
                cl == srtp_stream_clone(Session.m, t, ssrc, Fresh(heap, "specific"), k)
            IN /\ MemoryIs(cl.m)
               /\ template' = {t}
               /\ list' = IF cl.ok THEN <<Numbered(cl.s, rtp)>> \o list ELSE list
       /\ UNCHANGED <<new_template, new_list, doing, spilled>>

(* srtp_dealloc.                                                           *)
Dealloc ==
    /\ doing = "idle"
    /\ doing' = "close"
    /\ UNCHANGED <<template, list, new_template, new_list, heap, bad, spilled>>

DeallocStream ==
    /\ doing = "close"
    /\ list # <<>>
    /\ MemoryIs(srtp_stream_dealloc(Session.m, Head(list), template))
    /\ list' = Tail(list)
    /\ UNCHANGED <<template, new_template, new_list, doing, spilled>>

DeallocSession ==
    /\ doing = "close"
    /\ list = <<>>
    /\ \E m \in IF template = {} THEN {Session.m} ELSE {srtp_stream_dealloc(Session.m, t, {}) : t \in template} :
         MemoryIs([heap |-> m.heap \ {TheSession}, bad |-> m.bad \/ TheSession \notin m.heap])
    /\ template' = {}
    /\ doing' = "closed"
    /\ UNCHANGED <<list, new_template, new_list, spilled>>

(* Bound: a behaviour is not followed past an error path that leaks.      *)
SessionNext == ~ spilled /\ (
    \/ Create \/ CreateReturns
    \/ \E p \in Policies : AddStream(p) \/ UpdateStream(p) \/ UpdateTemplate(p)
    \/ UpdateClone \/ UpdateTemplateReturns \/ UndoClone \/ UndoTemplate
    \/ \E s \in Ssrc : RemoveStream(s)
    \/ \E s \in Ssrc, rtp \in BOOLEAN : Protect(s, rtp) \/ Unprotect(s, rtp)
    \/ Dealloc \/ DeallocStream \/ DeallocSession)

SessionSpec == SessionInit /\ [][SessionNext]_sessionVars

----------------------------------------------------------------------------
InList(l) == {l[i] : i \in 1..Len(l)}

Streams == template \cup InList(list) \cup new_template \cup InList(new_list)

Held == (UNION {s.ptrs : s \in Streams}) \cup (IF doing = "closed" THEN {} ELSE {TheSession})

SessionTypeOK ==
    /\ \A s, t \in template : s = t
    /\ doing \in {"closed", "create", "idle", "update", "undo", "close"}
    /\ \A s \in Streams : /\ s.ssrc \in Ssrc
                          /\ s.n \in 1..MaxKeys
                          /\ s.dir \in Direction
                          /\ s.index \in Nat /\ s.rtcp \in Nat
    /\ bad \in BOOLEAN /\ spilled \in BOOLEAN

(* By whatever sequence of adds, removals, updates, clones and failed      *)
(* allocations, no object is freed twice; no stream points to an object    *)
(* that was freed, a clone to the ciphers of a template it outlived; and   *)
(* every object belongs to some stream, unless one of the two error paths  *)
(* that free less than they allocated was taken.                           *)
StreamMemoryIsOwned ==
    /\ ~ bad
    /\ Held \subseteq heap
    /\ spilled \/ heap \subseteq Held

(* An SSRC is never set back: a stream that replaces another of the same   *)
(* SSRC takes over its RTP index and its SRTCP replay database             *)
(* (update_stream, update_template_streams), so no index of the SSRC is    *)
(* used a second time.  A session in which srtp_add_stream was called for  *)
(* an SSRC it already had is excepted.                                     *)
Numbering == InList(list) \cup InList(new_list)

NoTwins(S) == \A s, t \in S : s.ssrc = t.ssrc => s = t

IndexNeverFallsBack ==
    [][NoTwins(Numbering) /\ NoTwins(Numbering') =>
         \A s \in Numbering, t \in Numbering' :
            s.ssrc = t.ssrc => t.index >= s.index /\ t.rtcp >= s.rtcp]_sessionVars
============================================================================
