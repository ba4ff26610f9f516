------------------------------- MODULE MCJson -------------------------------
(***************************************************************************)
(* Json on types with every kind of member, nested and repeated; integers  *)
(* of 3 bits stand for the narrow ones and of 5 bits for the wide ones.    *)
(***************************************************************************)
EXTENDS Json, FiniteSets

Kind(k)    == [kind |-> k]
Narrow     == [kind |-> "int", min |-> -4, max |-> 3]
Unsigned   == [kind |-> "int", min |-> 0, max |-> 7]
Vector(T)  == [kind |-> "vector", of |-> T]
MapOf(T)   == [kind |-> "map", of |-> T]
Struct(ms) == [kind |-> "struct", members |-> ms]

Field(k, T) == [key |-> k, type |-> T, optional |-> FALSE, init |-> Fresh(T)]
Option(k, T) == [key |-> k, type |-> T, optional |-> TRUE, init |-> NoValue]

\* struct { int8_t a; std::optional<std::string> b; std::vector<uint8_t> c; }
Plain == Struct(<<Field("a", Narrow), Option("b", Kind("str")), Field("c", Vector(Unsigned))>>)
Inner == Struct(<<Field("b", Narrow)>>)
\* struct { std::optional<Inner> a; std::map<std::string, int8_t> c; }
Nested == Struct(<<Option("a", Inner), Field("c", MapOf(Narrow))>>)
\* struct { double a; yyjson_val *b; }
Raw == Struct(<<Field("a", Kind("real")), Field("b", Kind("raw"))>>)
\* struct { std::vector<int8_t> c = {1}; std::optional<yyjson_val *> b; }
Filled == Struct(<<[Field("c", Vector(Narrow)) EXCEPT !.init = [is |-> "vector", items |-> <<Num(1)>>]],
                   Option("b", Kind("raw"))>>)

MCTypes == {Plain, Nested, Raw, Filled, MapOf(Narrow), Vector(Inner), MapOf(Kind("raw")), Unsigned}

-----------------------------------------------------------------------------
Str(x)  == [is |-> "str", str |-> x]
Real(x) == [is |-> "real", real |-> x]
Arr(xs) == [is |-> "arr", items |-> xs]

Scalars == {Null, Num(-3), Num(5), Num(14), Real("x"), Str("x")}
Inners  == {Obj(<<>>), Obj(<<[key |-> "b", val |-> Num(2)]>>),
            Obj(<<[key |-> "b", val |-> Num(2)], [key |-> "b", val |-> Num(1)]>>)}
Arrays  == {Arr(<<>>), Arr(<<Num(9), Num(-1)>>), Arr(<<Str("x")>>)}

Trees == Scalars \cup Inners \cup Arrays
Pairs == [key : {"a", "b", "c"}, val : Trees]

\* Objects of up to two pairs, some of three, arrays of objects, scalars.
MCTexts ==
    {Malformed} \cup Trees
        \cup {Obj(ps) : ps \in UNION {[1..n -> Pairs] : n \in 0..2}}
        \cup {Obj(<<[key |-> "a", val |-> x], [key |-> k, val |-> y], [key |-> "c", val |-> z]>>) :
                 x \in {Num(5), Real("x"), Null}, k \in {"a", "b", "c"}, y \in Trees, z \in Inners \cup Arrays}
        \cup {Arr(<<x, y>>) : x \in Inners, y \in Inners \cup {Num(5)}}

RECURSIVE MCValues(_)
MCValues(T) ==
    CASE T.kind = "int"  -> {Num(T.min), Num(T.max)}
      [] T.kind = "str"  -> {Str(""), Str("x"), Str("bad")}
      [] T.kind = "real" -> {Real("x"), Real("NaN")}
      [] T.kind = "raw"  -> {[is |-> "pointer", to |-> js] : js \in {Null, Num(14), Arr(<<Num(9)>>)}}
      [] T.kind = "vector" ->
            {[is |-> "vector", items |-> s] :
                s \in UNION {[1..n -> MCValues(T.of)] : n \in 0..2}}
      [] T.kind = "map" ->
            {[is |-> "map", at |-> f] :
                f \in UNION {[K -> MCValues(T.of)] : K \in SUBSET {"a", "bad"}}}
      [] T.kind = "struct" ->
            {[is |-> "struct", member |-> f] : f \in
                {g \in [{m.key : m \in ToSet(T.members)} ->
                            UNION {MCValues(m.type) : m \in ToSet(T.members)} \cup {NoValue}] :
                    \A m \in ToSet(T.members) :
                        g[m.key] \in MCValues(m.type) \cup (IF m.optional THEN {NoValue} ELSE {})}}
=============================================================================
