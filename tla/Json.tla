-------------------------------- MODULE Json --------------------------------
(***************************************************************************)
(* ccl2::json (include/ccl2/json.h): parse() and dump(), and between them  *)
(* yyjson_convert, which maps a JSON document to a C++ type and back,      *)
(* member by member.                                                       *)
(*                                                                         *)
(* A C++ type is a record with its kind; a struct has its members in       *)
(* order, each with its key, its type, whether it is a std::optional, and  *)
(* the value it has before anything is decoded.  A std::list is read and   *)
(* written as a std::vector is, and an unordered_map as a map.             *)
(*                                                                         *)
(* yyjson is modelled from the calls json.h makes: reading a text gives a  *)
(* tree whose objects keep their pairs in order, with repeated keys;       *)
(* writing one fails for a string that is not UTF-8 and a real that is not *)
(* finite.                                                                 *)
(***************************************************************************)
EXTENDS Integers, Sequences, SequencesExt

CONSTANTS
    Types,      \* the types T of parse<T>() and dump<T>()
    Values(_),  \* C++ values of such a type, to be written
    Texts,      \* texts that are read, as trees, or Malformed
    BadStrings, \* std::strings that are not UTF-8
    BadReals    \* NaN and infinity

VARIABLES
    type,       \* T
    source,     \* the value given to dump(), or Nothing
    text,       \* the text, as a tree
    ret,        \* the T that parse() fills
    at,         \* where the program is: in dump(), in parse(), in f
    docs,       \* the yyjson documents that have not been freed
    outcome     \* what came of parse() or dump()

vars == <<type, source, text, ret, at, docs, outcome>>

Nothing   == [is |-> "nothing"]
Malformed == [is |-> "malformed"]   \* a text that is no JSON

-----------------------------------------------------------------------------
(* Trees and values.  A scalar is the same in both. *)

Null    == [is |-> "null"]
Missing == [is |-> "nullptr"]       \* yyjson_obj_get finds no such key
Garbage == [is |-> "garbage"]       \* a scalar that was not initialised
NoValue == [is |-> "nullopt"]

Num(n)  == [is |-> "num", num |-> n]
Obj(ps) == [is |-> "obj", pairs |-> ps]

\* What a T holds when it has been default-initialised.
RECURSIVE Fresh(_)
Fresh(T) ==
    IF T.kind = "struct"
    THEN [is |-> "struct",
          member |-> [k \in {m.key : m \in ToSet(T.members)} |->
                        (CHOOSE m \in ToSet(T.members) : m.key = k).init]]
    ELSE IF T.kind = "vector" THEN [is |-> "vector", items |-> <<>>]
    ELSE IF T.kind = "map" THEN [is |-> "map", at |-> <<>>]
    ELSE IF T.kind = "str" THEN [is |-> "str", str |-> ""]
    ELSE Garbage

-----------------------------------------------------------------------------
(* from_json. *)

\* Mutated form of Narrowed: every integer is read as a signed one.
NarrowedSigned(T, js) ==
    LET half == (T.max - T.min + 1) \div 2
    IN IF js.is = "real" THEN Num(0)
       ELSE Num(((js.num + half) % (2 * half)) - half)

\* yyjson_get_sint and yyjson_get_uint followed by the conversion to the
\* member's type: modulo 2^bits; a real is taken for 0.
Narrowed(T, js) ==
    IF js.is = "real" THEN Num(0)
    ELSE Num(((js.num - T.min) % (T.max - T.min + 1)) + T.min)

\* Mutated form of Get: the last of several values of a key.
GetLast(js, key) ==
    LET has == {i \in DOMAIN js.pairs : js.pairs[i].key = key}
    IN IF has = {} THEN Missing ELSE js.pairs[Max(has)].val

\* yyjson_obj_get: the first value of a key.
Get(js, key) ==
    LET has == {i \in DOMAIN js.pairs : js.pairs[i].key = key}
    IN IF has = {} THEN Missing ELSE js.pairs[Min(has)].val

Done(v)  == [end |-> "ok", val |-> v]
Throw(v) == [end |-> "throw", val |-> v]

\* Whether T's from_json takes js, which "expect" tests.
Expected(T, js) ==
    CASE T.kind = "struct" -> js.is = "obj"
      [] T.kind = "map"    -> js.is = "obj"
      [] T.kind = "vector" -> js.is = "arr"
      [] T.kind = "str" -> js.is = "str"
      [] T.kind = "bool"   -> js.is = "bool"
      [] T.kind = "real"   -> js.is = "real"
      [] T.kind = "int"    -> js.is \in {"num", "real"}
      [] T.kind = "raw"    -> TRUE

RECURSIVE Decode(_, _, _)

\* Mutated form of DecodeMember: a member that is missing is passed over.
DecodeMemberSkip(m, js, old) ==
    LET val == Get(js, m.key)
    IN IF val = Missing \/ (m.optional /\ val = Null)
       THEN Done(IF m.optional THEN NoValue ELSE old)
       ELSE Decode(m.type, val, IF m.optional THEN Fresh(m.type) ELSE old)

\* A member is there, or optional, or the null pointer goes to not_null,
\* which ends the process.
DecodeMember(m, js, old) ==
    LET val == Get(js, m.key)
    IN IF m.optional
       THEN IF val \in {Missing, Null} THEN Done(NoValue)
            ELSE Decode(m.type, val, Fresh(m.type))
       ELSE IF val = Missing THEN [end |-> "abort", val |-> old]
       ELSE Decode(m.type, val, old)

\* from_json(js, old): how it ends, and what old has become.  Containers
\* are added to; of a key that a map has, the value stays.
Decode(T, js, old) ==
    LET Member(acc, m) ==
            IF acc.end # "ok" THEN acc
            ELSE LET d == DecodeMember(m, js, acc.val.member[m.key])
                     kept == m.optional /\ d.end # "ok"
                 IN [end |-> d.end,
                     val |-> IF kept THEN acc.val
                             ELSE [acc.val EXCEPT !.member[m.key] = d.val]]
        Item(acc, item) ==
            IF acc.end # "ok" THEN acc
            ELSE LET d == Decode(T.of, item, Fresh(T.of))
                 IN IF d.end # "ok" THEN [acc EXCEPT !.end = d.end]
                    ELSE [acc EXCEPT !.val.items = Append(@, d.val)]
        Pair(acc, pair) ==
            IF acc.end # "ok" THEN acc
            ELSE LET d == Decode(T.of, pair.val, Fresh(T.of))
                     map == acc.val.at
                 IN IF d.end # "ok" THEN [acc EXCEPT !.end = d.end]
                    ELSE [acc EXCEPT !.val.at =
                            [k \in DOMAIN map \cup {pair.key} |->
                                IF k \in DOMAIN map THEN map[k] ELSE d.val]]
    IN IF ~Expected(T, js) THEN Throw(old)
       ELSE IF T.kind = "struct" THEN FoldLeft(Member, Done(old), T.members)
       ELSE IF T.kind = "vector" THEN FoldLeft(Item, Done(old), js.items)
       ELSE IF T.kind = "map" THEN FoldLeft(Pair, Done(old), js.pairs)
       ELSE IF T.kind = "int" THEN Done(Narrowed(T, js))
       ELSE IF T.kind = "raw" THEN Done([is |-> "pointer", to |-> js])
       ELSE Done(js)

-----------------------------------------------------------------------------
(* to_json. *)

\* The tree of a value: an optional member without a value is left out.
RECURSIVE Encode(_, _)
Encode(T, v) ==
    IF T.kind = "struct"
    THEN LET there == SelectSeq(T.members, LAMBDA m : v.member[m.key] # NoValue)
         IN Obj([i \in DOMAIN there |->
                    [key |-> there[i].key,
                     val |-> Encode(there[i].type, v.member[there[i].key])]])
    ELSE IF T.kind = "vector"
    THEN [is |-> "arr", items |-> [i \in DOMAIN v.items |-> Encode(T.of, v.items[i])]]
    ELSE IF T.kind = "map"
    THEN LET keys == SetToSeq(DOMAIN v.at)
         IN Obj([i \in DOMAIN keys |->
                    [key |-> keys[i], val |-> Encode(T.of, v.at[keys[i]])]])
    ELSE IF T.kind = "raw" THEN v.to
    ELSE v

\* yyjson_mut_write_opts writes the tree.
RECURSIVE Writable(_)
Writable(js) ==
    CASE js.is = "str"  -> js.str \notin BadStrings
      [] js.is = "real" -> js.real \notin BadReals
      [] js.is = "arr"  -> \A i \in DOMAIN js.items : Writable(js.items[i])
      [] js.is = "obj"  -> \A i \in DOMAIN js.pairs :
                              js.pairs[i].key \notin BadStrings /\ Writable(js.pairs[i].val)
      [] OTHER -> TRUE

-----------------------------------------------------------------------------
(* dump() and parse(), which is there in two forms: one returns the T, the *)
(* other gives it to a function f while the document is alive.             *)

Init ==
    /\ type = Nothing /\ source = Nothing /\ text = Nothing /\ ret = Nothing
    /\ at = "start" /\ docs = {} /\ outcome = "none"

\* dump(v), up to the document being built.
Dump(T, v) ==
    /\ at = "start"
    /\ type' = T /\ source' = v
    /\ text' = Encode(T, v)
    /\ docs' = {"written"}
    /\ at' = "write"
    /\ UNCHANGED <<ret, outcome>>

\* yyjson_mut_write_opts, the error, and the guard that frees the document.
Write ==
    /\ at = "write"
    /\ docs' = {}
    /\ IF Writable(text) THEN at' = "text" /\ UNCHANGED outcome
       ELSE at' = "end" /\ outcome' = "throw"
    /\ UNCHANGED <<type, source, text, ret>>

\* parse<T>(t): T ret; yyjson_read.
Read(T, t) ==
    /\ type' = T /\ text' = t /\ ret' = Fresh(T)
    /\ IF t = Malformed
       THEN at' = "end" /\ outcome' = "throw" /\ UNCHANGED docs
       ELSE at' = "read" /\ docs' = docs \cup {"read"} /\ UNCHANGED outcome
    /\ UNCHANGED source

\* A text from elsewhere, or the one that dump() gave.
Parse ==
    \/ at = "start" /\ \E T \in Types, t \in Texts : Read(T, t)
    \/ at = "text" /\ Read(type, text)

\* yyjson_doc_free, as the guard runs.
Leave(how) ==
    /\ at' = "end" /\ outcome' = how
    /\ docs' = docs \ {"read"}

\* The T is returned, or f is called with it.
Give == Leave("ok") \/ (at' = "f" /\ UNCHANGED <<docs, outcome>>)

\* from_json(root, ret), and what follows.
Convert ==
    /\ at = "read"
    /\ LET d == Decode(type, text, ret)
       IN /\ ret' = d.val
          /\ CASE d.end = "ok"    -> Give
               [] d.end = "throw" -> Leave("throw")
               [] d.end = "abort" -> at' = "end" /\ outcome' = "abort" /\ UNCHANGED docs
    /\ UNCHANGED <<type, source, text>>

\* f returns, or throws through parse().
Return ==
    /\ at = "f"
    /\ Leave("ok") \/ Leave("throw_of_f")
    /\ UNCHANGED <<type, source, text, ret>>

Next ==
    \/ \E T \in Types : \E v \in Values(T) : Dump(T, v)
    \/ Write
    \/ Parse
    \/ Convert
    \/ Return

Spec == Init /\ [][Next]_vars

-----------------------------------------------------------------------------
(* What is right about it. *)

\* A declarative account of the texts that a type takes: every mandatory
\* member has a value, and each value (of a repeated key the first, in a
\* struct; all of them, in a map) is of its type.
RECURSIVE Fits(_, _)
Fits(T, js) ==
    /\ Expected(T, js)
    /\ T.kind = "struct" =>
        \A m \in ToSet(T.members) :
            \/ m.optional /\ Get(js, m.key) \in {Missing, Null}
            \/ Get(js, m.key) # Missing /\ Fits(m.type, Get(js, m.key))
    /\ T.kind = "map" => \A i \in DOMAIN js.pairs : Fits(T.of, js.pairs[i].val)
    /\ T.kind = "vector" => \A i \in DOMAIN js.items : Fits(T.of, js.items[i])

\* Whether an object that the type decodes lacks a mandatory member.
RECURSIVE Lacks(_, _)
Lacks(T, js) ==
    /\ Expected(T, js)
    /\ \/ T.kind = "struct" /\ \E m \in ToSet(T.members) :
             LET val == Get(js, m.key)
             IN IF val = Missing THEN ~m.optional
                ELSE Lacks(m.type, val) /\ ~(m.optional /\ val = Null)
       \/ T.kind = "map" /\ \E i \in DOMAIN js.pairs : Lacks(T.of, js.pairs[i].val)
       \/ T.kind = "vector" /\ \E i \in DOMAIN js.items : Lacks(T.of, js.items[i])

RECURSIVE IsOf(_, _)
IsOf(T, v) ==
    CASE T.kind = "struct" ->
            \A m \in ToSet(T.members) :
                \/ m.optional /\ v.member[m.key] = NoValue
                \/ IsOf(m.type, v.member[m.key])
      [] T.kind = "vector" -> \A i \in DOMAIN v.items : IsOf(T.of, v.items[i])
      [] T.kind = "map"    -> \A k \in DOMAIN v.at : IsOf(T.of, v.at[k])
      [] T.kind = "int"    -> v = Garbage \/ (v.is = "num" /\ v.num \in T.min .. T.max)
      [] OTHER             -> v = Garbage \/ v.is = (IF T.kind = "raw" THEN "pointer" ELSE T.kind)

\* What is decoded is of its type, and the T that f or the caller of parse()
\* gets is whole: it is given for exactly the texts that fit the type, and
\* the process ends only for a text that lacks a mandatory member.
OnlyWholeValuesGetOut ==
    /\ ret # Nothing => IsOf(type, ret)
    /\ (at = "f" \/ (outcome = "ok" /\ ret # Nothing)) => Fits(type, text)
    /\ (outcome = "throw" /\ text \notin {Malformed, Nothing} /\ ret # Nothing)
          => ~Fits(type, text)
    /\ outcome = "abort" => Lacks(type, text)

\* While f runs the document its raw pointers lead into is alive, and no
\* document is left behind, whichever way parse() or dump() is left.
DocumentsAreFreed ==
    /\ at = "f" => "read" \in docs
    /\ at \in {"text", "end"} /\ outcome # "abort" => docs = {}

\* A call of parse() gives a whole value or an exception, and leaves nothing
\* behind.
AllOrNothing == OnlyWholeValuesGetOut /\ DocumentsAreFreed

\* A type none of whose values decode to something else: no container has
\* members before it is decoded, and no optional member is raw.
RECURSIVE Faithful(_)
Faithful(T) ==
    /\ T.kind = "struct" =>
        \A m \in ToSet(T.members) :
            /\ Faithful(m.type)
            /\ m.type.kind \in {"vector", "map"} => m.optional \/ m.init = Fresh(m.type)
            /\ ~(m.optional /\ m.type.kind = "raw")
    /\ T.kind \in {"vector", "map"} => Faithful(T.of)

\* What dump() wrote, parse() reads back as the value it was: the converter
\* has no member that it writes one way and reads another.
RoundTrip ==
    (source # Nothing /\ ret # Nothing /\ at \in {"f", "end"} /\ Faithful(type))
        => ret = source /\ outcome \in {"none", "ok", "throw_of_f"}

\* A struct and a map read the same text to the same values: of a repeated
\* key, the first.
StructAndMapAgree ==
    (at = "f" /\ type.kind = "struct" /\ Faithful(type)) =>
        \A m \in ToSet(type.members) :
            LET asMap == Decode([kind |-> "map", of |-> m.type], text,
                                [is |-> "map", at |-> <<>>])
            IN (asMap.end = "ok" /\ m.key \in DOMAIN asMap.val.at)
                 => ret.member[m.key] = asMap.val.at[m.key]
=============================================================================
