----------------------------- MODULE CjsonTree -----------------------------
(***************************************************************************)
(* cJSON's documents in memory: items in doubly linked lists under a       *)
(* container, made, added, inserted, detached, replaced, referenced,       *)
(* duplicated and deleted by a caller that owns the items in roots.        *)
(*                                                                         *)
(* heap maps the addresses of live items to items, strings counts the live *)
(* string blocks (texts and keys), and bad says that freed memory was      *)
(* freed or written.  doc is what the caller means: the sequence of        *)
(* children of every container.  An allocation fails when no address is    *)
(* left, or when the operation's fuel is used up.                          *)
(*                                                                         *)
(* The caller keeps to cJSON's contract: it adds only items it owns, adds  *)
(* to containers that are not references, and frees nothing that a         *)
(* reference left alive points to.                                         *)
(***************************************************************************)
EXTENDS Integers, SequencesExt

CONSTANTS Addr,         \* addresses of items
          NULL,         \* no address
          Menus         \* what an instance is about: [types, keys, room, refs], the types
                        \* and keys used (2n and 2n + 1 are one letter in two cases) and
                        \* the bounds on items and on references

VARIABLES menu, heap, strings, bad, doc, roots,
          lost,         \* ghost: references nobody holds
          unnamed       \* ghost: a replacement's key could not be copied

vars == <<menu, heap, strings, bad, doc, roots, lost, unnamed>>

NoKey == 0
Scalars == {"NULL", "True", "False", "Number"}
Texts == {"String", "Raw"}
Containers == {"Array", "Object"}
NoItem == [type |-> "Invalid", text |-> FALSE, isref |-> FALSE, const |-> FALSE, string |-> NoKey,
           child |-> NULL, next |-> NULL, prev |-> NULL, target |-> NULL]

----------------------------------------------------------------------------
(* Memory: m has the fields heap, strings, bad and fuel.                   *)
At(m, a) == IF a \in DOMAIN m.heap THEN m.heap[a] ELSE NoItem
Put(m, a, item) ==
    IF a \in DOMAIN m.heap THEN [m EXCEPT !.heap[a] = item] ELSE [m EXCEPT !.bad = TRUE]
Free(m, a, n) ==
    IF a \in DOMAIN m.heap
    THEN [m EXCEPT !.heap = [b \in DOMAIN @ \ {a} |-> @[b]], !.strings = @ - n]
    ELSE [m EXCEPT !.bad = TRUE]

(* cJSON_New_Item, the item filled in by its caller.                       *)
cJSON_New_Item(m, item) ==
    LET free == Addr \ DOMAIN m.heap
        a == CHOOSE b \in free : TRUE
    IN IF m.fuel = 0 \/ Cardinality(DOMAIN m.heap) = menu.room THEN [m |-> m, a |-> NULL]
       ELSE [m |-> [m EXCEPT !.heap = [b \in DOMAIN @ \cup {a} |-> IF b = a THEN item ELSE @[b]],
                             !.fuel = @ - 1],
             a |-> a]

cJSON_strdup(m, string) ==
    IF string = NoKey \/ m.fuel = 0 THEN [m |-> m, s |-> NoKey]
    ELSE [m |-> [m EXCEPT !.strings = @ + 1, !.fuel = @ - 1], s |-> string]

(* The blocks an item owns besides itself.                                 *)
Owned(n) == (IF n.text /\ ~ n.isref THEN 1 ELSE 0) + (IF n.string # NoKey /\ ~ n.const THEN 1 ELSE 0)

(* cJSON_Delete: the item and all that follow it in its list.              *)
RECURSIVE cJSON_Delete(_, _)
cJSON_Delete(m, a) ==
    IF a = NULL THEN m
    ELSE LET n == At(m, a)
             below == IF ~ n.isref THEN cJSON_Delete(m, n.child) ELSE m
         IN cJSON_Delete(Free(below, a, Owned(n)), n.next)

----------------------------------------------------------------------------
(* cJSON_CreateNull, True, False, Bool and Number.                         *)
cJSON_CreateScalar(m, t) == cJSON_New_Item(m, [NoItem EXCEPT !.type = t])

(* cJSON_CreateString and cJSON_CreateRaw.                                 *)
cJSON_CreateText(m, t) ==
    LET r == cJSON_New_Item(m, [NoItem EXCEPT !.type = t])
        d == cJSON_strdup(r.m, 1)
    IN IF r.a = NULL THEN r
       ELSE IF d.s = NoKey THEN [m |-> cJSON_Delete(d.m, r.a), a |-> NULL]
       ELSE [m |-> Put(d.m, r.a, [At(d.m, r.a) EXCEPT !.text = TRUE]), a |-> r.a]

(* cJSON_CreateArray and cJSON_CreateObject.                               *)
cJSON_CreateContainer(m, t) == cJSON_New_Item(m, [NoItem EXCEPT !.type = t])

Create(m, t) == IF t \in Texts THEN cJSON_CreateText(m, t)
                ELSE IF t \in Containers THEN cJSON_CreateContainer(m, t)
                ELSE cJSON_CreateScalar(m, t)

(* cJSON_CreateStringReference, ObjectReference and ArrayReference.        *)
cJSON_CreateTypeReference(m, a) ==
    LET n == At(m, a)
    IN cJSON_New_Item(m, [NoItem EXCEPT !.type = n.type, !.isref = TRUE, !.text = n.text,
                                        !.child = n.child, !.target = a])

(* create_reference: a copy of the item that owns neither text nor         *)
(* children.                                                               *)
create_reference(m, a) ==
    cJSON_New_Item(m, [At(m, a) EXCEPT !.string = NoKey, !.isref = TRUE, !.next = NULL, !.prev = NULL,
                                       !.target = a])

----------------------------------------------------------------------------
(* get_array_item, counting from 0.                                        *)
RECURSIVE Skip(_, _, _)
Skip(h, a, index) == IF a = NULL \/ index = 0 THEN a ELSE Skip(h, h[a].next, index - 1)
get_array_item(h, array, index) == Skip(h, h[array].child, index)

(* case_insensitive_strcmp: a missing string equals nothing.               *)
SameKey(k, string, case_sensitive) ==
    string # NoKey /\ IF case_sensitive THEN k = string ELSE k \div 2 = string \div 2

(* get_object_item: a case sensitive search ends at an item without a key, *)
(* the other one passes over it.                                           *)
RECURSIVE Search(_, _, _, _)
Search(h, a, name, cs) ==
    IF a = NULL \/ SameKey(name, h[a].string, cs) THEN a
    ELSE IF cs /\ h[a].string = NoKey THEN NULL
    ELSE Search(h, h[a].next, name, cs)
get_object_item(h, object, name, cs) == Search(h, h[object].child, name, cs)

RECURSIVE LastOf(_, _)
LastOf(h, a) == IF h[a].next = NULL THEN a ELSE LastOf(h, h[a].next)

suffix_object(m, prev, item) ==
    LET l == Put(m, prev, [At(m, prev) EXCEPT !.next = item])
    IN Put(l, item, [At(l, item) EXCEPT !.prev = prev])

add_item_to_array(m, array, item) ==
    LET child == At(m, array).child
    IN IF item = NULL THEN m
       ELSE IF child = NULL THEN Put(m, array, [At(m, array) EXCEPT !.child = item])
       ELSE suffix_object(m, LastOf(m.heap, child), item)

(* add_item_to_object: FALSE, and nothing changed, when the key cannot be  *)
(* copied; the item's old key is freed only after that.                    *)
add_item_to_object(m, object, string, item, constant_key) ==
    LET d == IF constant_key THEN [m |-> m, s |-> string] ELSE cJSON_strdup(m, string)
        n == At(d.m, item)
        freed == IF ~ n.const /\ n.string # NoKey THEN 1 ELSE 0
        k == Put([d.m EXCEPT !.strings = @ - freed], item,
                 [n EXCEPT !.string = d.s, !.const = constant_key])
    IN IF item = NULL \/ d.s = NoKey THEN [m |-> m, ok |-> FALSE]
       ELSE [m |-> add_item_to_array(k, object, item), ok |-> TRUE]

(* cJSON_AddNullToObject and its eight siblings.                           *)
cJSON_AddTypeToObject(m, object, name, t) ==
    LET r == Create(m, t)
        added == add_item_to_object(r.m, object, name, r.a, FALSE)
    IN IF added.ok THEN [m |-> added.m, a |-> r.a]
       ELSE [m |-> cJSON_Delete(added.m, r.a), a |-> NULL]

cJSON_DetachItemViaPointer(m, parent, item) ==
    LET n == At(m, item)
        p == IF n.prev = NULL THEN m ELSE Put(m, n.prev, [At(m, n.prev) EXCEPT !.next = n.next])
        q == IF n.next = NULL THEN p ELSE Put(p, n.next, [At(p, n.next) EXCEPT !.prev = n.prev])
        r == IF At(q, parent).child # item THEN q
             ELSE Put(q, parent, [At(q, parent) EXCEPT !.child = n.next])
    IN IF item = NULL THEN m ELSE Put(r, item, [At(r, item) EXCEPT !.prev = NULL, !.next = NULL])

(* Mutant: the item after the new one keeps its predecessor. *)
cJSON_InsertItemInArray_OldPrev(m, array, which, newitem) ==
    LET after == get_array_item(m.heap, array, which)
        before == At(m, after).prev
        p == Put(m, newitem, [At(m, newitem) EXCEPT !.next = after, !.prev = before])
    IN IF after = NULL THEN add_item_to_array(m, array, newitem)
       ELSE IF At(p, array).child = after THEN Put(p, array, [At(p, array) EXCEPT !.child = newitem])
       ELSE Put(p, before, [At(p, before) EXCEPT !.next = newitem])

cJSON_InsertItemInArray(m, array, which, newitem) ==
    LET after == get_array_item(m.heap, array, which)
        before == At(m, after).prev
        p == Put(m, newitem, [At(m, newitem) EXCEPT !.next = after, !.prev = before])
        q == Put(p, after, [At(p, after) EXCEPT !.prev = newitem])
    IN IF after = NULL THEN add_item_to_array(m, array, newitem)
       ELSE IF At(q, array).child = after THEN Put(q, array, [At(q, array) EXCEPT !.child = newitem])
       ELSE Put(q, before, [At(q, before) EXCEPT !.next = newitem])

cJSON_ReplaceItemViaPointer(m, parent, item, replacement) ==
    LET n == At(m, item)
        p == Put(m, replacement, [At(m, replacement) EXCEPT !.next = n.next, !.prev = n.prev])
        q == IF n.next = NULL THEN p ELSE Put(p, n.next, [At(p, n.next) EXCEPT !.prev = replacement])
        r == IF n.prev = NULL THEN q ELSE Put(q, n.prev, [At(q, n.prev) EXCEPT !.next = replacement])
        s == IF At(r, parent).child # item THEN r
             ELSE Put(r, parent, [At(r, parent) EXCEPT !.child = replacement])
    IN IF item = NULL THEN m
       ELSE cJSON_Delete(Put(s, item, [At(s, item) EXCEPT !.next = NULL, !.prev = NULL]), item)

(* replace_item_in_object: the replacement is renamed whether or not the   *)
(* key is there and whether or not it could be copied.                     *)
replace_item_in_object(m, object, string, replacement, cs) ==
    LET n == At(m, replacement)
        freed == IF ~ n.const /\ n.string # NoKey THEN 1 ELSE 0
        d == cJSON_strdup([m EXCEPT !.strings = @ - freed], string)
        k == Put(d.m, replacement, [n EXCEPT !.string = d.s, !.const = FALSE])
    IN cJSON_ReplaceItemViaPointer(k, object, get_object_item(k.heap, object, string, cs), replacement)

(* cJSON_CreateIntArray, FloatArray, DoubleArray and StringArray.          *)
RECURSIVE Filled(_, _, _, _, _)
Filled(m, a, p, t, count) ==
    LET n == Create(m, t)
    IN IF count = 0 THEN [m |-> m, a |-> a]
       ELSE IF n.a = NULL THEN [m |-> cJSON_Delete(n.m, a), a |-> NULL]
       ELSE Filled(IF p = NULL THEN Put(n.m, a, [At(n.m, a) EXCEPT !.child = n.a])
                   ELSE suffix_object(n.m, p, n.a), a, n.a, t, count - 1)
cJSON_CreateTypeArray(m, t, count) ==
    LET r == cJSON_CreateContainer(m, "Array")
    IN IF r.a = NULL THEN r ELSE Filled(r.m, r.a, NULL, t, count)

(* cJSON_Duplicate: text and key first, then the children one by one; a    *)
(* copy that cannot be finished is deleted.                                *)
RECURSIVE cJSON_Duplicate(_, _, _)
RECURSIVE Copied(_, _, _, _)
Copied(m, newitem, child, next) ==
    LET c == cJSON_Duplicate(m, child, TRUE)
    IN IF child = NULL THEN [m |-> m, a |-> newitem]
       ELSE IF c.a = NULL THEN [m |-> cJSON_Delete(c.m, newitem), a |-> NULL]
       ELSE Copied(IF next # NULL THEN suffix_object(c.m, next, c.a)
                   ELSE Put(c.m, newitem, [At(c.m, newitem) EXCEPT !.child = c.a]),
                   newitem, At(m, child).next, c.a)

cJSON_Duplicate(m, item, recurse) ==
    LET i == At(m, item)
        r == cJSON_New_Item(m, [NoItem EXCEPT !.type = i.type, !.const = i.const])
        v == IF i.text THEN cJSON_strdup(r.m, 1) ELSE [m |-> r.m, s |-> NoKey]
        n == Put(v.m, r.a, [At(v.m, r.a) EXCEPT !.text = i.text])
        s == IF i.string = NoKey \/ i.const THEN [m |-> n, s |-> i.string] ELSE cJSON_strdup(n, i.string)
        k == Put(s.m, r.a, [At(s.m, r.a) EXCEPT !.string = s.s])
    IN IF r.a = NULL THEN [m |-> m, a |-> NULL]
       ELSE IF i.text /\ v.s = NoKey THEN [m |-> cJSON_Delete(v.m, r.a), a |-> NULL]
       ELSE IF i.string # NoKey /\ s.s = NoKey THEN [m |-> cJSON_Delete(s.m, r.a), a |-> NULL]
       ELSE IF recurse THEN Copied(k, r.a, i.child, NULL) ELSE [m |-> k, a |-> r.a]

(* cJSON_Compare                                                           *)
RECURSIVE cJSON_Compare(_, _, _, _)
RECURSIVE SameElements(_, _, _, _)
SameElements(h, a, b, cs) ==
    IF a = NULL \/ b = NULL THEN a = b
    ELSE cJSON_Compare(h, a, b, cs) /\ SameElements(h, h[a].next, h[b].next, cs)
RECURSIVE MembersIn(_, _, _, _)
MembersIn(h, a, object, cs) ==
    IF a = NULL THEN TRUE
    ELSE LET b == IF h[a].string = NoKey THEN NULL ELSE get_object_item(h, object, h[a].string, cs)
         IN b # NULL /\ cJSON_Compare(h, a, b, cs) /\ MembersIn(h, h[a].next, object, cs)
cJSON_Compare(h, a, b, cs) ==
    /\ h[a].type = h[b].type
    /\ \/ a = b
       \/ h[a].type \in Scalars
       \/ h[a].type \in Texts /\ h[a].text /\ h[b].text
       \/ h[a].type = "Array" /\ SameElements(h, h[a].child, h[b].child, cs)
       \/ /\ h[a].type = "Object"
          /\ MembersIn(h, h[a].child, b, cs)
          /\ MembersIn(h, h[b].child, a, cs)

----------------------------------------------------------------------------
M(fuel) == [heap |-> heap, strings |-> strings, bad |-> bad, fuel |-> fuel]

(* Everything in reach of a set of items, through references too.  The     *)
(* caller never closes a circle: cJSON's recursion would not end.          *)
RECURSIVE Closure(_, _)
Closure(h, S) ==
    LET T == S \cup {b \in UNION {{h[a].child, h[a].next} : a \in S} : b \in DOMAIN h}
    IN IF T = S THEN S ELSE Closure(h, T)
Circular(h) ==
    /\ \E r \in DOMAIN h : h[r].isref
    /\ \E a \in DOMAIN h : h[a].child \in DOMAIN h /\ a \in Closure(h, {h[a].child})

Becomes(m) ==
    /\ ~ Circular(m.heap)
    /\ heap' = m.heap
    /\ strings' = m.strings
    /\ bad' = m.bad
    /\ UNCHANGED menu

Live == DOMAIN doc
Lists(types) == {c \in Live : heap[c].type \in types /\ ~ heap[c].isref}
RECURSIVE Chain(_, _)
Chain(h, a) == IF a = NULL THEN << >> ELSE <<a>> \o Chain(h, h[a].next)
Kids(h, p) == Chain(h, h[p].child)
RECURSIVE Below(_)
Below(a) == {a} \cup UNION {Below(doc[a][i]) : i \in DOMAIN doc[a]}
IndexIn(p, i) == CHOOSE k \in DOMAIN doc[p] : doc[p][k] = i
Without(d, S) == [a \in DOMAIN d \ S |-> d[a]]
With(d, a) == IF a = NULL THEN d ELSE [b \in DOMAIN d \cup {a} |-> IF b = a THEN << >> ELSE d[b]]
MayRefer(a) == ~ heap[a].isref /\ Cardinality({r \in Live : heap[r].isref}) < menu.refs
MayFree(S) ==
    \A r \in Live \ S : heap[r].isref => heap[r].target \notin S /\ heap[r].child \notin S

Init ==
    /\ menu \in Menus
    /\ heap = << >> /\ strings = 0 /\ bad = FALSE
    /\ doc = << >> /\ roots = {} /\ lost = {} /\ unnamed = FALSE

CreateItem(t, fuel) ==
    LET r == Create(M(fuel), t)
    IN /\ Becomes(r.m)
       /\ doc' = With(doc, r.a)
       /\ roots' = roots \cup ({r.a} \ {NULL})
       /\ UNCHANGED <<lost, unnamed>>

CreateTypeReference(a, fuel) ==
    LET r == cJSON_CreateTypeReference(M(fuel), a)
    IN /\ MayRefer(a) /\ heap[a].type \in {"String"} \cup Containers
       /\ Becomes(r.m)
       /\ doc' = With(doc, r.a)
       /\ roots' = roots \cup ({r.a} \ {NULL})
       /\ UNCHANGED <<lost, unnamed>>

CreateTypeArray(t, count, fuel) ==
    LET r == cJSON_CreateTypeArray(M(fuel), t, count)
        new == DOMAIN r.m.heap \ Live
    IN /\ t \notin Containers
       /\ Becomes(r.m)
       /\ doc' = IF r.a = NULL THEN doc
                 ELSE [b \in Live \cup new |-> IF b = r.a THEN Kids(r.m.heap, b) ELSE IF b \in new THEN << >> ELSE doc[b]]
       /\ roots' = roots \cup ({r.a} \ {NULL})
       /\ UNCHANGED <<lost, unnamed>>

AddItemToArray(p, i) ==
    /\ p \notin Below(i)
    /\ Becomes(add_item_to_array(M(0), p, i))
    /\ doc' = [doc EXCEPT ![p] = Append(@, i)]
    /\ roots' = roots \ {i}
    /\ UNCHANGED <<lost, unnamed>>

AddItemToObject(p, key, i, constant_key, fuel) ==
    LET r == add_item_to_object(M(fuel), p, key, i, constant_key)
    IN /\ p \notin Below(i)
       /\ Becomes(r.m)
       /\ doc' = IF r.ok THEN [doc EXCEPT ![p] = Append(@, i)] ELSE doc
       /\ roots' = IF r.ok THEN roots \ {i} ELSE roots
       /\ UNCHANGED <<lost, unnamed>>

AddItemReferenceToArray(p, a, fuel) ==
    LET r == create_reference(M(fuel), a)
    IN /\ MayRefer(a)
       /\ Becomes(add_item_to_array(r.m, p, r.a))
       /\ doc' = IF r.a = NULL THEN doc ELSE [With(doc, r.a) EXCEPT ![p] = Append(@, r.a)]
       /\ UNCHANGED <<roots, lost, unnamed>>

(* A reference whose key cannot be copied is left to nobody.               *)
AddItemReferenceToObject(p, key, a, fuel) ==
    LET r == create_reference(M(fuel), a)
        added == add_item_to_object(r.m, p, key, r.a, FALSE)
    IN /\ MayRefer(a)
       /\ Becomes(added.m)
       /\ doc' = IF added.ok THEN [With(doc, r.a) EXCEPT ![p] = Append(@, r.a)] ELSE With(doc, r.a)
       /\ lost' = IF added.ok THEN lost ELSE lost \cup ({r.a} \ {NULL})
       /\ UNCHANGED <<roots, unnamed>>

AddTypeToObject(p, key, t, fuel) ==
    LET r == cJSON_AddTypeToObject(M(fuel), p, key, t)
    IN /\ Becomes(r.m)
       /\ doc' = IF r.a = NULL THEN doc ELSE [With(doc, r.a) EXCEPT ![p] = Append(@, r.a)]
       /\ UNCHANGED <<roots, lost, unnamed>>

(* cJSON_DetachItemFromArray, and cJSON_DeleteItemFromArray if freed.      *)
Take(p, item, freed) ==
    LET d == cJSON_DetachItemViaPointer(M(0), p, item)
        gone == IF freed THEN Below(item) ELSE {}
    IN /\ IF item = NULL THEN UNCHANGED <<menu, heap, strings, bad, doc, roots>>
          ELSE /\ MayFree(gone)
               /\ Becomes(IF freed THEN cJSON_Delete(d, item) ELSE d)
               /\ doc' = Without([doc EXCEPT ![p] = RemoveAt(@, IndexIn(p, item))], gone)
               /\ roots' = IF freed THEN roots ELSE roots \cup {item}
       /\ UNCHANGED <<lost, unnamed>>

DetachItemFromArray(p, which, freed) == Take(p, get_array_item(heap, p, which), freed)
DetachItemFromObject(p, key, cs, freed) == Take(p, get_object_item(heap, p, key, cs), freed)

InsertItemInArray(p, which, i) ==
    /\ p \notin Below(i)
    /\ Becomes(cJSON_InsertItemInArray(M(0), p, which, i))
    /\ doc' = [doc EXCEPT ![p] = IF which < Len(@) THEN InsertAt(@, which + 1, i) ELSE Append(@, i)]
    /\ roots' = roots \ {i}
    /\ UNCHANGED <<lost, unnamed>>

(* The item replaced is deleted with all it contains.                      *)
Replaced(p, item, i, m) ==
    /\ p \notin Below(i)
    /\ IF item = NULL THEN UNCHANGED <<doc, roots>>
       ELSE /\ MayFree(Below(item))
            /\ doc' = Without([doc EXCEPT ![p][IndexIn(p, item)] = i], Below(item))
            /\ roots' = roots \ {i}
    /\ Becomes(m)
    /\ UNCHANGED lost

ReplaceItemInArray(p, which, i) ==
    LET item == get_array_item(heap, p, which)
    IN Replaced(p, item, i, cJSON_ReplaceItemViaPointer(M(0), p, item, i)) /\ UNCHANGED unnamed

ReplaceItemInObject(p, key, i, cs, fuel) ==
    LET item == get_object_item(heap, p, key, cs)
    IN /\ Replaced(p, item, i, replace_item_in_object(M(fuel), p, key, i, cs))
       /\ unnamed' = (unnamed \/ (item # NULL /\ fuel = 0))

Delete(i) ==
    /\ MayFree(Below(i))
    /\ Becomes(cJSON_Delete(M(0), i))
    /\ doc' = Without(doc, Below(i))
    /\ roots' = roots \ {i}
    /\ UNCHANGED <<lost, unnamed>>

Duplicate(a, recurse, fuel) ==
    LET r == cJSON_Duplicate(M(fuel), a, recurse)
    IN /\ Becomes(r.m)
       /\ doc' = [b \in DOMAIN r.m.heap |-> IF b \in Live THEN doc[b] ELSE Kids(r.m.heap, b)]
       /\ roots' = roots \cup ({r.a} \ {NULL})
       /\ UNCHANGED <<lost, unnamed>>

(* The fuel is what an operation may need; see DuplicateIsAllOrNothing for *)
(* copies that fail half way.                                              *)
Next ==
    \/ \E t \in menu.types, fuel \in 0..2 : CreateItem(t, fuel)
    \/ \E t \in menu.types, count \in 0..2, fuel \in 0..5 : CreateTypeArray(t, count, fuel)
    \/ \E a \in Live, fuel \in 0..1 : CreateTypeReference(a, fuel)
    \/ \E a \in Live, recurse \in BOOLEAN : Duplicate(a, recurse, 9)
    \/ \E p \in Lists({"Array"}), a \in Live, fuel \in 0..1 : AddItemReferenceToArray(p, a, fuel)
    \/ \E p \in Lists({"Object"}), key \in menu.keys :
         \/ \E i \in roots : AddItemToObject(p, key, i, TRUE, 0)
         \/ \E i \in roots, fuel \in 0..1 : AddItemToObject(p, key, i, FALSE, fuel)
         \/ \E a \in Live, fuel \in 0..2 : AddItemReferenceToObject(p, key, a, fuel)
         \/ \E t \in menu.types, fuel \in 0..3 : AddTypeToObject(p, key, t, fuel)
         \/ \E i \in roots, cs \in BOOLEAN, fuel \in 0..1 : ReplaceItemInObject(p, key, i, cs, fuel)
    \/ \E p \in Lists({"Array"}), i \in roots : AddItemToArray(p, i)
    \/ \E p \in Lists({"Array"}), which \in 0..2 :
         \/ \E freed \in BOOLEAN : DetachItemFromArray(p, which, freed)
         \/ \E i \in roots : InsertItemInArray(p, which, i) \/ ReplaceItemInArray(p, which, i)
    \/ \E p \in Lists({"Object"}), key \in menu.keys, cs, freed \in BOOLEAN : DetachItemFromObject(p, key, cs, freed)
    \/ \E i \in roots : Delete(i)

Spec == Init /\ [][Next]_vars

----------------------------------------------------------------------------
TypeOK ==
    /\ DOMAIN heap \subseteq Addr /\ strings \in Nat /\ bad \in BOOLEAN
    /\ roots \subseteq Live /\ lost \subseteq Live

(* No operation frees an item twice or writes to a freed one.              *)
NoBadAccess == ~ bad

(* The linked lists are the document the caller built: forwards they hold  *)
(* the children in order, backwards the same, and an item in no list       *)
(* points nowhere.                                                         *)
Before(p, k) == IF k = 1 THEN NULL ELSE doc[p][k - 1]
After(p, k) == IF k = Len(doc[p]) THEN NULL ELSE doc[p][k + 1]
ListsAreTheDocument ==
    /\ DOMAIN heap = Live
    /\ \A p \in Live : ~ heap[p].isref => heap[p].child = IF doc[p] = << >> THEN NULL ELSE doc[p][1]
    /\ \A p \in Live : \A k \in DOMAIN doc[p] :
           heap[doc[p][k]].prev = Before(p, k) /\ heap[doc[p][k]].next = After(p, k)
    /\ \A i \in roots \cup lost : heap[i].prev = NULL /\ heap[i].next = NULL

(* Every item has exactly one owner, the caller or one place in one list,  *)
(* and every string block one item: nothing leaks and nothing is freed     *)
(* twice, whichever allocation fails.  Excepted are references whose key   *)
(* could not be copied (AddItemReferenceToObject).                         *)
Places(i) == {pk \in Live \X (1..Cardinality(Addr)) : pk[2] \in DOMAIN doc[pk[1]] /\ doc[pk[1]][pk[2]] = i}
EverythingIsOwnedOnce ==
    /\ \A i \in Live : Cardinality(Places(i)) = IF i \in roots \cup lost THEN 0 ELSE 1
    /\ strings = FoldSet(LAMBDA i, n : n + Owned(heap[i]), 0, Live)

(* Every member of an object is found by its key, in both ways of looking, *)
(* as long as every replacement could be named.                            *)
MembersAreFound ==
    ~ unnamed =>
        \A p \in Lists({"Object"}) : \A k \in DOMAIN doc[p] : \A cs \in BOOLEAN :
            LET name == heap[doc[p][k]].string
                i == get_object_item(heap, p, name, cs)
            IN /\ name # NoKey /\ i # NULL
               /\ IndexIn(p, i) <= k

(* cJSON_Duplicate is all or nothing: it returns a copy that compares      *)
(* equal (when no two members of an object have one key), or, wherever     *)
(* memory runs out, leaves everything as it was.                           *)
NoTwins == \A p \in Live : heap[p].type = "Object" =>
    \A i, j \in ToSet(Kids(heap, p)) :
        heap[i].string # NoKey /\ (i # j => ~ SameKey(heap[i].string, heap[j].string, TRUE))
DuplicateIsAllOrNothing ==
    \A a \in roots : \A fuel \in 0..9 :
        LET r == cJSON_Duplicate(M(fuel), a, TRUE)
        IN IF r.a = NULL THEN r.m.heap = heap /\ r.m.strings = strings /\ r.m.bad = bad
           ELSE NoTwins => cJSON_Compare(r.m.heap, a, r.a, TRUE)
=============================================================================
