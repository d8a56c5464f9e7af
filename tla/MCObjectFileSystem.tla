------------------------- MODULE MCObjectFileSystem -------------------------
(***************************************************************************)
(* A small instance of ObjectFileSystem for TLC: a database with two of    *)
(* its companions, and names made to be confused with each other.          *)
(***************************************************************************)
EXTENDS ObjectFileSystem

A           == <<"a">>
AWal        == <<"a", ".wal">>
ACheckpoint == <<"a", ".wal", ".checkpoint">>
Nested      == <<"a", "/", "b">>
Escaped     == <<"a", "%", "2F", "b">>
Hidden      == <<"a", "/", ".wal">>

SomeTokens ==
  {Prefix, "/", "%", "25", "2F", ".wal", ".checkpoint", ".recovery", "a", "b"}

Url(path) == <<Prefix, "/", "/">> \o path
Other       == <<Prefix, "/", "/", "/">> \o A

SomeUrls == {Url(p) : p \in {A, AWal, ACheckpoint, Nested, Escaped, Hidden}}
              \cup {Other, <<Prefix, "/", "/">>, A}

Meaning ==
  [u \in SomeUrls |->
     IF u = Other THEN A
     ELSE IF u \in {<<Prefix, "/", "/">>, A} THEN None
     ELSE SubSeq(u, 4, Len(u))]

MainFile ==
  [p \in {A, AWal, ACheckpoint, Nested, Escaped, Hidden} |->
     IF p \in {AWal, ACheckpoint} THEN A ELSE p]

Read == [read |-> TRUE, write |-> FALSE, create |-> FALSE, overwrite |-> FALSE,
         append |-> FALSE, nullIfMissing |-> FALSE]

SomeModes ==
  {Read, [Read EXCEPT !.nullIfMissing = TRUE], [Read EXCEPT !.create = TRUE],
   [Read EXCEPT !.write = TRUE], [Read EXCEPT !.write = TRUE, !.create = TRUE],
   [Read EXCEPT !.write = TRUE, !.overwrite = TRUE],
   [Read EXCEPT !.write = TRUE, !.nullIfMissing = TRUE]}
=============================================================================
