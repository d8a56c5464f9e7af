-------------------------- MODULE MCFileSystemInit --------------------------
(***************************************************************************)
(* A small instance of FileSystemInit for TLC.                             *)
(***************************************************************************)
EXTENDS FileSystemInit

CONSTANTS c1, c2

Cases == [LOCAL |-> "local", S3 |-> "s3"]

(* Other spellings of a value (upper case, empty, NULL, the default        *)
(* written out), other values, a backend and a cache that cannot be.       *)
Spellings == [backend |-> {"LOCAL", "S3", "memory", "ftp"},
              bucket  |-> {"b"},
              root    |-> {"", DefaultLocalRoot, "r"},
              memory  |-> {"", "1GiB"},
              path    |-> {"", "d"},
              size    |-> {"", "0"},
              part    |-> {"1000"}]

SomeSettable ==
  {<<c1, "global", "backend", raw>> : raw \in {"S3", "memory", "ftp"}}
    \cup {<<c1, c1, "root", DefaultLocalRoot>>, <<c2, "global", "bucket", "b">>,
          <<c2, "global", "size", "0">>}
    \cup {<<c1, "global", "path", raw>> : raw \in {"", "d"}}

FewSettable ==
  {<<c1, "global", "backend", "S3">>, <<c2, "global", "path", "d">>}

Numbers == [t \in {"0", "1000", Defaults["size"], Defaults["part"]} |->
              IF t = "0" THEN 0 ELSE IF t = "1000" THEN 1000 ELSE 4096]

Keys == [key_id |-> "k", secret |-> "s", session_token |-> "", url_style |-> ""]

Secrets ==
  [t \in {"", "keys", "half", "style"} |->
     IF t = "keys" THEN [Keys EXCEPT !.session_token = "t"]
     ELSE IF t = "half" THEN [Keys EXCEPT !.secret = ""]
     ELSE IF t = "style" THEN [Keys EXCEPT !.url_style = "odd"]
     ELSE [Keys EXCEPT !.key_id = "", !.secret = ""]]
=============================================================================
