------------------------ MODULE FileSystemInitProofs ------------------------
(***************************************************************************)
(* Proofs about FileSystemInit, for any number of connections and any      *)
(* values of the settings, the secrets and the cache options.              *)
(***************************************************************************)
EXTENDS FileSystemInit, TLAPS

(* What every backend reads.                                               *)
CacheFields == {"memory", "path", "size", "part"}

(* What a backend reads, and in which order.                               *)
LEMMA FieldsRead ==
  /\ FieldsOf("local") = {"backend", "root"} \cup CacheFields
  /\ FieldsOf("s3") = {"backend", "bucket", "root", "secret"} \cup CacheFields
  /\ \A b : b \notin {"local", "s3"} => FieldsOf(b) = {"backend"} \cup CacheFields
  /\ FieldsOf("memory") = {"backend"} \cup CacheFields
  /\ \A b : /\ FieldsOf(b) \subseteq Fields
            /\ "backend" \in FieldsOf(b) /\ CacheFields \subseteq FieldsOf(b)
            /\ "bucket" \in FieldsOf(b) <=> b = "s3"
  <1>1. FieldsOf("local") = {"backend", "root"} \cup CacheFields
    <2>1. /\ ReadOrder("local") =
               <<"backend", "memory", "path", "size", "part", "root">>
          /\ Len(ReadOrder("local")) = 6 /\ 1 .. 6 = {1, 2, 3, 4, 5, 6}
      BY DEF ReadOrder
    <2>2. FieldsOf("local") =
            {<<"backend", "memory", "path", "size", "part", "root">>[i] :
               i \in {1, 2, 3, 4, 5, 6}}
      BY <2>1 DEF FieldsOf
    <2> QED
      BY <2>2 DEF CacheFields
  <1>2. FieldsOf("s3") = {"backend", "bucket", "root", "secret"} \cup CacheFields
    <2>1. /\ ReadOrder("s3") =
               <<"backend", "memory", "path", "size", "part", "bucket", "root", "secret">>
          /\ Len(ReadOrder("s3")) = 8 /\ 1 .. 8 = {1, 2, 3, 4, 5, 6, 7, 8}
      BY DEF ReadOrder
    <2>2. FieldsOf("s3") =
            {<<"backend", "memory", "path", "size", "part", "bucket", "root", "secret">>[i] :
               i \in {1, 2, 3, 4, 5, 6, 7, 8}}
      BY <2>1 DEF FieldsOf
    <2> QED
      BY <2>2 DEF CacheFields
  <1>3. ASSUME NEW b, b \notin {"local", "s3"}
        PROVE  FieldsOf(b) = {"backend"} \cup CacheFields
    <2>1. /\ ReadOrder(b) = <<"backend", "memory", "path", "size", "part">>
          /\ Len(ReadOrder(b)) = 5 /\ 1 .. 5 = {1, 2, 3, 4, 5}
      BY <1>3 DEF ReadOrder
    <2>2. FieldsOf(b) = {<<"backend", "memory", "path", "size", "part">>[i] :
                           i \in {1, 2, 3, 4, 5}}
      BY <2>1 DEF FieldsOf
    <2> QED
      BY <2>2 DEF CacheFields
  <1> QED
    BY <1>1, <1>2, <1>3 DEF CacheFields, Fields, Names, Options

(* What is read next is missing and of use, and when there is nothing      *)
(* left to read nothing of use is missing.                                 *)
LEMMA ReadNext ==
  ASSUME NEW d
  PROVE  /\ \A n \in NextToRead(d) :
              /\ d[n] = Unset
              /\ d["backend"] = Unset => n = "backend"
              /\ d["backend"] # Unset => n \in FieldsOf(d["backend"])
         /\ NextToRead(d) = {} =>
              /\ d["backend"] # Unset
              /\ \A n \in FieldsOf(d["backend"]) : d[n] # Unset
  <1>1. CASE d["backend"] = Unset
    BY <1>1 DEF NextToRead
  <1>2. CASE d["backend"] # Unset
    <2> DEFINE order == ReadOrder(d["backend"])
               Is(j) == /\ d[order[j]] = Unset
                        /\ \A k \in 1 .. (j - 1) : d[order[k]] # Unset
    <2>1. NextToRead(d) = {order[i] : i \in {j \in 1 .. Len(order) : Is(j)}}
      BY <1>2 DEF NextToRead
    <2>2. FieldsOf(d["backend"]) = {order[i] : i \in 1 .. Len(order)}
      BY DEF FieldsOf
    <2>3. \A n \in NextToRead(d) : d[n] = Unset /\ n \in FieldsOf(d["backend"])
      BY <2>1, <2>2
    <2>4. Len(order) \in 5 .. 8
      BY DEF ReadOrder
    <2>5. ASSUME NextToRead(d) = {}
          PROVE  \A n \in FieldsOf(d["backend"]) : d[n] # Unset
      <3>1. \A j \in 1 .. Len(order) : ~Is(j)
        BY <2>1, <2>5
      <3> HIDE DEF order
      <3>2. d[order[1]] # Unset
        BY <2>4, <3>1
      <3>3. d[order[2]] # Unset
        BY <2>4, <3>1, <3>2
      <3>4. d[order[3]] # Unset
        BY <2>4, <3>1, <3>2, <3>3
      <3>5. d[order[4]] # Unset
        BY <2>4, <3>1, <3>2, <3>3, <3>4
      <3>6. d[order[5]] # Unset
        BY <2>4, <3>1, <3>2, <3>3, <3>4, <3>5
      <3> DEFINE Five == \A k \in 1 .. 5 : d[order[k]] # Unset
      <3>7. Five
        BY <3>2, <3>3, <3>4, <3>5, <3>6
      <3>8. 6 <= Len(order) => d[order[6]] # Unset
        BY <2>4, <3>1, <3>7
      <3>9. 7 <= Len(order) => d[order[7]] # Unset
        BY <2>4, <3>1, <3>7, <3>8
      <3>10. 8 <= Len(order) => d[order[8]] # Unset
        BY <2>4, <3>1, <3>7, <3>8, <3>9
      <3>11. \A j \in 1 .. Len(order) : d[order[j]] # Unset
        BY <2>4, <3>7, <3>8, <3>9, <3>10
      <3> QED
        BY <2>2, <3>11
    <2> QED
      BY <1>2, <2>3, <2>5
  <1> QED
    BY <1>1, <1>2

LEMMA LowerFacts ==
  /\ \A s : Lower(s) = "" <=> s = ""
  /\ \A s : Lower(Lower(s)) = Lower(s)
  /\ Lower("local") = "local"
  BY LowerCaseAssumption DEF Lower

LEMMA TextFacts ==
  /\ \A n \in Names : Raw[n] \subseteq Texts
  /\ "" \in Texts /\ "local" \in Texts /\ DefaultLocalRoot \in Texts
  /\ DefaultS3Root \in Texts /\ \A n \in Options : Defaults[n] \in Texts
  /\ \A s \in Texts : Lower(s) \in Texts
  <1> DEFINE set   == UNION {Raw[n] : n \in Names}
             lower == {LowerCase[s] : s \in DOMAIN LowerCase}
             known == {"", "local", DefaultLocalRoot, DefaultS3Root}
             given == {Defaults[n] : n \in Options}
  <1>0. Texts = set \cup lower \cup known \cup given
    BY DEF Texts
  <1>1. \A n \in Names : Raw[n] \subseteq Texts
    BY DEF Texts
  <1>2. known \subseteq Texts /\ given \subseteq Texts
    <2> HIDE DEF set, lower, known, given
    <2> QED
      BY <1>0
  <1>3. \A s \in DOMAIN LowerCase : LowerCase[s] \in Texts
    <2>1. lower \subseteq Texts
      <3> HIDE DEF set, lower, known, given
      <3> QED
        BY <1>0
    <2> QED
      BY <2>1
  <1>4. \A s \in Texts : Lower(s) \in Texts
    BY <1>3 DEF Lower
  <1> QED
    BY <1>1, <1>2, <1>4

(* Both ways to read the backend agree: BackendOf of the reader of         *)
(* settings, and the set callback's.                                       *)
LEMMA BackendRead ==
  ASSUME NEW raw
  PROVE  /\ BackendOf(raw) = IF Lower(raw) = "" THEN "local" ELSE Lower(raw)
         /\ BackendOf(raw) # "" /\ Lower(BackendOf(raw)) = BackendOf(raw)
         /\ BackendOf(BackendOf(raw)) = BackendOf(raw)
         /\ raw \in Texts => BackendOf(raw) \in Texts
  BY LowerFacts, TextFacts DEF BackendOf

(* What is read of a setting is a text it may have.                        *)
LEMMA CurrentSettingType ==
  ASSUME TypeOK, SettingsWereSet, NEW c \in Connections,
         NEW o \in {"client", "database", "none"}, NEW n \in Fields
  PROVE  /\ n \in Names => CurrentSetting(c, o, n) \in Texts
         /\ n = "secret" => CurrentSetting(c, o, n) \in DOMAIN SecretOf
         /\ n \in {"size", "part"} =>
              CurrentSetting(c, o, n) \in Raw[n] \cup {"", Defaults[n]}
  <1>1. /\ c \in Scopes /\ "global" \in Scopes
        /\ "secret" \notin Names
    BY DEF Scopes, Names, Options
  <1>2. CASE n = "secret"
    BY <1>1, <1>2 DEF CurrentSetting, TypeOK
  <1>3. CASE n \in Names
    <2>1. /\ value[c][n] \in Texts \cup {Unset} /\ value["global"][n] \in Texts
          /\ n \in {"size", "part"} =>
               /\ value[c][n] \in Raw[n] \cup {Defaults[n], Unset}
               /\ value["global"][n] \in Raw[n] \cup {Defaults[n]}
      BY <1>1, <1>3 DEF TypeOK, Settings, SettingsWereSet
    <2> QED
      BY <1>1, <1>3, <2>1, TextFacts DEF CurrentSetting
  <1> QED
    BY <1>2, <1>3 DEF Fields

LEMMA NothingRead == ReadAsUsed(Nothing) /\ Nothing \in Drafts
  BY RawAssumption, TextFacts DEF ReadAsUsed, Nothing, Drafts, Fields, Names, Options

(* One more setting is read.                                               *)
LEMMA ReadKeepsForm ==
  ASSUME NEW d, ReadAsUsed(d), NEW n \in NextToRead(d), NEW raw,
         n \in Names => raw \in Texts,
         n = "secret" => raw \in DOMAIN SecretOf,
         n \in {"size", "part"} => raw \in Raw[n] \cup {"", Defaults[n]}
  PROVE  ReadAsUsed([d EXCEPT ![n] = ReadValue(d, n, raw)])
  <1> DEFINE v == ReadValue(d, n, raw)
             e == [d EXCEPT ![n] = v]
  <1> SUFFICES ReadAsUsed(e)
    OBVIOUS
  <1>1. /\ d[n] = Unset /\ n \in Fields
        /\ d["backend"] = Unset => n = "backend"
        /\ d["backend"] # Unset => n \in FieldsOf(d["backend"])
    BY ReadNext, FieldsRead DEF Fields, Names, Options
  <1>2. Unset \notin Texts /\ Unset \notin DOMAIN SecretOf
    BY RawAssumption
  <1>3. /\ n \in Names => v \in Texts
        /\ n = "secret" => v \in DOMAIN SecretOf
    <2>1. CASE n = "backend"
      BY <2>1, BackendRead DEF ReadValue, Names, Options
    <2>2. CASE n = "root"
      BY <2>2, TextFacts DEF ReadValue, RootOf, Names, Options
    <2>3. CASE n \notin {"backend", "root"}
      BY <2>3, TextFacts DEF ReadValue, Names, Options
    <2> QED
      BY <2>1, <2>2, <2>3 DEF Names, Options
  <1>4. v \in Texts \cup DOMAIN SecretOf
    BY <1>1, <1>3 DEF Fields
  <1>5. d \in Drafts /\ DOMAIN d = Fields
    BY DEF ReadAsUsed, Drafts
  <1>6. /\ e \in Drafts /\ e[n] = v
        /\ \A m \in Fields \ {n} : e[m] = d[m]
    <2> HIDE DEF v
    <2> QED
      BY <1>1, <1>4, <1>5 DEF Drafts
  <1>7. /\ \A m \in Names : e[m] \in Texts \cup {Unset}
        /\ e["secret"] \in DOMAIN SecretOf \cup {Unset}
    <2> HIDE DEF e, v
    <2> QED
      BY <1>3, <1>6 DEF ReadAsUsed, Fields
  <1>8. CASE n = "backend"
    <2>1. d = Nothing /\ v = BackendOf(raw)
      BY <1>1, <1>8 DEF ReadAsUsed, ReadValue
    <2>2. \A m \in Fields \ {"backend"} : e[m] = Unset
      BY <1>6, <1>8, <2>1 DEF Nothing
    <2>3. e["backend"] # "" /\ Lower(e["backend"]) = e["backend"] /\ e["backend"] # Unset
      BY <1>2, <1>3, <1>6, <1>8, <2>1, BackendRead DEF Names, Options
    <2> HIDE DEF e, v
    <2>4. /\ e["root"] = Unset /\ Unset # ""
          /\ \A m \in Options : e[m] = Unset
      BY <1>2, <2>2, TextFacts DEF Fields, Names, Options
    <2>5. \A m \in Fields \ FieldsOf(e["backend"]) : e[m] = Unset
      BY <2>2, FieldsRead
    <2> QED
      BY <1>6, <1>7, <2>3, <2>4, <2>5 DEF ReadAsUsed, Options
  <1>9. CASE n # "backend"
    <2>1. d["backend"] # Unset /\ e["backend"] = d["backend"]
      BY <1>1, <1>6, <1>9 DEF Fields, Names, Options
    <2>2. /\ \A m \in Options : e[m] # ""
          /\ \A m \in {"size", "part"} : e[m] \in DOMAIN NumberOf \cup {Unset}
      <3>1. n \in Options => v # ""
        <4>1. /\ Defaults["memory"] # "" /\ Defaults["size"] # "" /\ Defaults["part"] # ""
          BY DEF Defaults
        <4> QED
          BY <4>1 DEF ReadValue, Options
      <3>2. n \in {"size", "part"} => v \in (Raw[n] \ {""}) \cup {Defaults[n]}
        BY DEF ReadValue, Options
      <3>3. n \in {"size", "part"} => v \in DOMAIN NumberOf
        <4> HIDE DEF v
        <4> QED
          BY <3>2, NumberAssumption
      <3>4. /\ \A m \in Options : d[m] # ""
            /\ \A m \in {"size", "part"} : d[m] \in DOMAIN NumberOf \cup {Unset}
        BY DEF ReadAsUsed
      <3> HIDE DEF e, v
      <3> QED
        BY <1>6, <3>1, <3>3, <3>4 DEF Fields, Names, Options
    <2>3. d["backend"] \in {"local", "s3"} => e["root"] # ""
      <3>1. CASE n = "root"
        <4>1. d["backend"] \in {"local", "s3"} => v # ""
          BY <3>1 DEF ReadValue, RootOf, DefaultS3Root, DefaultLocalRoot
        <4> QED
          BY <1>6, <3>1, <4>1
      <3>2. CASE n # "root"
        BY <1>6, <2>1, <3>2 DEF ReadAsUsed, Fields, Names, Options
      <3> QED
        BY <3>1, <3>2
    <2>4. \A m \in Fields \ FieldsOf(d["backend"]) : e[m] = Unset
      BY <1>1, <1>6, <2>1 DEF ReadAsUsed
    <2>5. d["backend"] # "" /\ Lower(d["backend"]) = d["backend"]
      BY <2>1 DEF ReadAsUsed
    <2> HIDE DEF e, v
    <2> QED
      BY <1>6, <1>7, <2>1, <2>2, <2>3, <2>4, <2>5 DEF ReadAsUsed
  <1> QED
    BY <1>8, <1>9

----------------------------------------------------------------------------
(* The two parts of TypeOK.                                                *)
Types ==
  /\ value \in [Scopes -> Settings]
  /\ \A n \in Names : value["global"][n] # Unset
  /\ secret \in DOMAIN SecretOf
  /\ tempDir \in {"local", "objfs"}
  /\ lock \in Connections \cup {None}
  /\ impl \in Drafts \cup {None}
  /\ frozen \in [Names -> Texts] \cup {None}
  /\ pc \in [Connections -> {"idle", "set", "wait", "read", "freeze"}]
  /\ arg \in [Connections -> [scope : Scopes, name : Names, raw : Texts]]
  /\ opener \in [Connections -> {"client", "database", "none"}]
  /\ draft \in [Connections -> Drafts]

LockHeld == \A c \in Connections : pc[c] \in {"read", "freeze"} <=> lock = c

LEMMA TypeOKParts == TypeOK <=> Types /\ LockHeld
  BY DEF TypeOK, Types, LockHeld

LEMMA InitInv == Init => Inv
  <1> SUFFICES ASSUME Init PROVE Inv
    OBVIOUS
  <1>1. value \in [Scopes -> Settings] /\ \A n \in Names : value["global"][n] # Unset
    <2>1. Defaults \in Settings /\ \A n \in Names : Defaults[n] # Unset
      <3>1. \A n \in Names : Defaults[n] \in Texts
        <4>1. Defaults["backend"] = "local"
          BY DEF Defaults
        <4>2. Defaults["bucket"] = "" /\ Defaults["root"] = "" /\ Defaults["path"] = ""
          BY DEF Defaults
        <4> QED
          BY <4>1, <4>2, TextFacts DEF Names
      <3>3. Defaults \in [Names -> Texts]
        <4>1. DOMAIN Defaults = Names /\ Defaults = [n \in DOMAIN Defaults |-> Defaults[n]]
          BY DEF Defaults, Names, Options
        <4> HIDE DEF Names
        <4> QED
          BY <3>1, <4>1
      <3>2. Unset \notin Texts
        BY RawAssumption
      <3> QED
        BY <3>1, <3>2, <3>3 DEF Settings
    <2>2. [n \in Names |-> Unset] \in Settings
      BY DEF Settings
    <2> QED
      BY <2>1, <2>2 DEF Init, Scopes
  <1>2. NoArg \in [scope : Scopes, name : Names, raw : Texts]
    BY TextFacts DEF NoArg, Scopes, Names, Options
  <1>3. Types
    BY <1>1, <1>2, NothingRead, SecretAssumption DEF Init, Types
  <1>4. LockHeld
    BY RawAssumption DEF Init, LockHeld
  <1>5. SettingsWereSet
    BY DEF Init, SettingsWereSet, Defaults, Names, Options
  <1>6. CreatedOnce
    BY NothingRead DEF Init, CreatedOnce
  <1> QED
    BY <1>3, <1>4, <1>5, <1>6, TypeOKParts DEF Inv

(* A step that does not create or freeze anything.                         *)
LEMMA SameFileSystem ==
  ASSUME CreatedOnce, UNCHANGED <<impl, frozen>>,
         \A c \in Connections : /\ ReadAsUsed(draft'[c])
                                /\ pc'[c] = "read" => impl = None
                                /\ pc'[c] = "freeze" => impl # None
  PROVE  CreatedOnce'
  BY DEF CreatedOnce

(* The end of a file operation.                                            *)
LEMMA ReturnsStep ==
  ASSUME Types, NEW c \in Connections, Returns(c)
  PROVE  /\ pc' \in [Connections -> {"idle", "set", "wait", "read", "freeze"}]
         /\ opener' \in [Connections -> {"client", "database", "none"}]
         /\ draft' \in [Connections -> Drafts]
         /\ pc'[c] = "idle" /\ draft'[c] = Nothing
         /\ \A b \in Connections \ {c} : pc'[b] = pc[b] /\ draft'[b] = draft[b]
  BY NothingRead DEF Types, Returns

LEMMA CreateSecretInv ==
  ASSUME Inv, NEW text \in DOMAIN SecretOf, CreateSecret(text)
  PROVE  Inv'
  <1>1. UNCHANGED <<value, tempDir, lock, impl, frozen, pc, arg, opener, draft>>
    BY DEF CreateSecret
  <1>2. TypeOK'
    BY <1>1 DEF CreateSecret, Inv, TypeOK
  <1>3. SettingsWereSet'
    BY <1>1 DEF Inv, SettingsWereSet
  <1>4. CreatedOnce'
    BY <1>1, SameFileSystem DEF Inv, CreatedOnce
  <1> QED
    BY <1>2, <1>3, <1>4 DEF Inv

LEMMA SetTemporaryDirectoryInv ==
  ASSUME Inv, SetTemporaryDirectory
  PROVE  Inv'
  <1>1. UNCHANGED <<value, secret, lock, impl, frozen, pc, arg, opener, draft>>
    BY DEF SetTemporaryDirectory
  <1>2. TypeOK'
    BY <1>1 DEF SetTemporaryDirectory, Inv, TypeOK
  <1>3. SettingsWereSet'
    BY <1>1 DEF Inv, SettingsWereSet
  <1>4. CreatedOnce'
    BY <1>1, SameFileSystem DEF Inv, CreatedOnce
  <1> QED
    BY <1>2, <1>3, <1>4 DEF Inv

LEMMA SetCheckInv ==
  ASSUME Inv, NEW c \in Connections, NEW scope \in Scopes, NEW n \in Names,
         NEW raw \in Raw[n], SetCheck(c, scope, n, raw)
  PROVE  Inv'
  <1>1. Types /\ LockHeld
    BY TypeOKParts DEF Inv
  <1>2. UNCHANGED <<value, secret, tempDir, lock, impl, frozen, opener, draft>>
    BY DEF SetCheck
  <1>3. /\ pc' \in [Connections -> {"idle", "set", "wait", "read", "freeze"}]
        /\ pc[c] = "idle" /\ pc'[c] = "set"
        /\ \A b \in Connections \ {c} : pc'[b] = pc[b]
    BY <1>1 DEF SetCheck, Types
  <1>4. /\ arg' \in [Connections -> [scope : Scopes, name : Names, raw : Texts]]
        /\ arg'[c] = [scope |-> scope, name |-> n, raw |-> raw]
        /\ \A b \in Connections \ {c} : arg'[b] = arg[b]
    <2>1. [scope |-> scope, name |-> n, raw |-> raw]
            \in [scope : Scopes, name : Names, raw : Texts]
      BY TextFacts
    <2> QED
      BY <1>1, <2>1 DEF SetCheck, Types
  <1>5. Types'
    BY <1>1, <1>2, <1>3, <1>4 DEF Types
  <1>6. LockHeld'
    BY <1>1, <1>2, <1>3 DEF LockHeld
  <1>7. SettingsWereSet'
    BY <1>2, <1>3, <1>4 DEF Inv, SettingsWereSet
  <1>8. CreatedOnce'
    BY <1>2, <1>3, SameFileSystem DEF Inv, CreatedOnce
  <1> QED
    BY <1>5, <1>6, <1>7, <1>8, TypeOKParts, PTL DEF Inv

LEMMA SetStoreInv ==
  ASSUME Inv, NEW c \in Connections, SetStore(c)
  PROVE  Inv'
  <1> DEFINE scope == arg[c].scope
             n == arg[c].name
             raw == arg[c].raw
  <1>1. Types /\ LockHeld
    BY TypeOKParts DEF Inv
  <1>2. UNCHANGED <<secret, tempDir, lock, impl, frozen, opener, draft>>
    BY DEF SetStore
  <1>3. /\ scope \in Scopes /\ n \in Names /\ raw \in Raw[n]
        /\ raw \in Texts /\ raw # Unset
    BY <1>1, RawAssumption, TextFacts DEF SetStore, Inv, SettingsWereSet, Types
  <1>4. /\ value' \in [Scopes -> Settings]
        /\ \A s \in Scopes, m \in Names :
             value'[s][m] = IF s = scope /\ m = n THEN raw ELSE value[s][m]
    <2>1. value' = [value EXCEPT ![scope][n] = raw]
      BY DEF SetStore
    <2> HIDE DEF scope, n, raw
    <2> QED
      BY <1>1, <1>3, <2>1 DEF Types, Settings
  <1>5. /\ pc' \in [Connections -> {"idle", "set", "wait", "read", "freeze"}]
        /\ pc[c] = "set" /\ pc'[c] = "idle"
        /\ \A b \in Connections \ {c} : pc'[b] = pc[b]
    BY <1>1 DEF SetStore, Types
  <1>6. /\ arg' \in [Connections -> [scope : Scopes, name : Names, raw : Texts]]
        /\ \A b \in Connections \ {c} : arg'[b] = arg[b]
    <2>1. NoArg \in [scope : Scopes, name : Names, raw : Texts]
      BY TextFacts DEF NoArg, Scopes, Names, Options
    <2> QED
      BY <1>1, <2>1 DEF SetStore, Types
  <1> HIDE DEF scope, n, raw
  <1>7. \A m \in Names : value'["global"][m] # Unset
    BY <1>1, <1>3, <1>4 DEF Types, Scopes
  <1>8. Types'
    BY <1>1, <1>2, <1>4, <1>5, <1>6, <1>7 DEF Types
  <1>9. LockHeld'
    BY <1>1, <1>2, <1>5 DEF LockHeld
  <1>10. SettingsWereSet'
    <2>1. \A s \in Scopes, m \in {"size", "part"} :
            value'[s][m] \in Raw[m] \cup {Defaults[m], Unset}
      BY <1>3, <1>4 DEF Inv, SettingsWereSet, Names, Options
    <2> QED
      BY <1>5, <1>6, <2>1 DEF Inv, SettingsWereSet
  <1>11. CreatedOnce'
    BY <1>2, <1>5, SameFileSystem DEF Inv, CreatedOnce
  <1> QED
    BY <1>8, <1>9, <1>10, <1>11, TypeOKParts, PTL DEF Inv

LEMMA FileOperationInv ==
  ASSUME Inv, NEW c \in Connections, NEW o \in Openers, FileOperation(c, o)
  PROVE  Inv'
  <1>1. Types /\ LockHeld
    BY TypeOKParts DEF Inv
  <1>2. UNCHANGED <<value, secret, tempDir, lock, impl, frozen, arg, draft>>
    BY DEF FileOperation
  <1>3. /\ pc' \in [Connections -> {"idle", "set", "wait", "read", "freeze"}]
        /\ opener' \in [Connections -> {"client", "database", "none"}]
        /\ pc[c] = "idle" /\ pc'[c] = "wait"
        /\ \A b \in Connections \ {c} : pc'[b] = pc[b]
    BY <1>1, RawAssumption DEF FileOperation, Types
  <1>4. Types'
    BY <1>1, <1>2, <1>3 DEF Types
  <1>5. LockHeld'
    BY <1>1, <1>2, <1>3 DEF LockHeld
  <1>6. SettingsWereSet'
    BY <1>2, <1>3 DEF Inv, SettingsWereSet
  <1>7. CreatedOnce'
    BY <1>2, <1>3, SameFileSystem DEF Inv, CreatedOnce
  <1> QED
    BY <1>4, <1>5, <1>6, <1>7, TypeOKParts, PTL DEF Inv

(* A file operation ends with the file system as it was.                   *)
LEMMA GivesUpInv ==
  ASSUME Inv, NEW c \in Connections, Returns(c), pc[c] # "set",
         \/ pc[c] = "wait" /\ UNCHANGED lock
         \/ pc[c] \in {"read", "freeze"} /\ lock' = None,
         tempDir' \in {"local", "objfs"},
         UNCHANGED <<value, secret, impl, frozen, arg>>
  PROVE  Inv'
  <1>1. Types /\ LockHeld
    BY TypeOKParts DEF Inv
  <1>2. /\ pc' \in [Connections -> {"idle", "set", "wait", "read", "freeze"}]
        /\ opener' \in [Connections -> {"client", "database", "none"}]
        /\ draft' \in [Connections -> Drafts]
        /\ pc'[c] = "idle" /\ draft'[c] = Nothing
        /\ \A b \in Connections \ {c} : pc'[b] = pc[b] /\ draft'[b] = draft[b]
    BY <1>1, ReturnsStep
  <1>3. Types'
    BY <1>1, <1>2 DEF Types
  <1>4. LockHeld'
    BY <1>1, <1>2, RawAssumption DEF LockHeld
  <1>5. SettingsWereSet'
    BY <1>2 DEF Inv, SettingsWereSet
  <1>6. CreatedOnce'
    BY <1>2, NothingRead, SameFileSystem DEF Inv, CreatedOnce
  <1> QED
    BY <1>3, <1>4, <1>5, <1>6, TypeOKParts, PTL DEF Inv

LEMMA UseFileSystemInv ==
  ASSUME Inv, NEW c \in Connections, UseFileSystem(c)
  PROVE  Inv'
  <1>1. tempDir' \in {"local", "objfs"}
    BY DEF UseFileSystem, EnsureTemporaryFilesStayLocal, Inv, TypeOK
  <1> QED
    BY <1>1, GivesUpInv DEF UseFileSystem

LEMMA BeginInitializationInv ==
  ASSUME Inv, NEW c \in Connections, BeginInitialization(c)
  PROVE  Inv'
  <1>1. Types /\ LockHeld
    BY TypeOKParts DEF Inv
  <1>2. /\ UNCHANGED <<value, secret, impl, frozen, arg, opener>>
        /\ pc[c] = "wait" /\ lock = None /\ impl = None /\ lock' = c
    BY DEF BeginInitialization
  <1>3. tempDir' \in {"local", "objfs"}
    BY <1>1 DEF BeginInitialization, EnsureTemporaryFilesStayLocal, Types
  <1>4. /\ pc' \in [Connections -> {"idle", "set", "wait", "read", "freeze"}]
        /\ draft' \in [Connections -> Drafts]
        /\ pc'[c] = "read" /\ draft'[c] = Nothing
        /\ \A b \in Connections \ {c} : pc'[b] = pc[b] /\ draft'[b] = draft[b]
    BY <1>1, NothingRead DEF BeginInitialization, Types
  <1>5. Types'
    BY <1>1, <1>2, <1>3, <1>4 DEF Types
  <1>6. LockHeld'
    BY <1>1, <1>2, <1>4, RawAssumption DEF LockHeld
  <1>7. SettingsWereSet'
    BY <1>2, <1>4 DEF Inv, SettingsWereSet
  <1>8. CreatedOnce'
    BY <1>2, <1>4, NothingRead, SameFileSystem DEF Inv, CreatedOnce
  <1> QED
    BY <1>5, <1>6, <1>7, <1>8, TypeOKParts, PTL DEF Inv

LEMMA ReadSettingInv ==
  ASSUME Inv, NEW c \in Connections, ReadSetting(c)
  PROVE  Inv'
  <1>1. UNCHANGED <<value, secret, tempDir, lock, impl, frozen, pc, arg, opener>>
    BY DEF ReadSetting
  <1>2. PICK n \in NextToRead(draft[c]) :
          draft' = [draft EXCEPT ![c][n] =
                      ReadValue(draft[c], n, CurrentSetting(c, opener[c], n))]
    BY DEF ReadSetting
  <1> DEFINE raw == CurrentSetting(c, opener[c], n)
             e == [draft[c] EXCEPT ![n] = ReadValue(draft[c], n, raw)]
  <1>3. ReadAsUsed(draft[c]) /\ draft \in [Connections -> Drafts]
    BY DEF Inv, CreatedOnce, TypeOK
  <1>4. n \in Fields
    BY ReadNext, FieldsRead DEF Fields, Names, Options
  <1>5. /\ n \in Names => raw \in Texts
        /\ n = "secret" => raw \in DOMAIN SecretOf
        /\ n \in {"size", "part"} => raw \in Raw[n] \cup {"", Defaults[n]}
    BY <1>4, CurrentSettingType DEF Inv, TypeOK
  <1>6. ReadAsUsed(e)
    <2> HIDE DEF raw
    <2> QED
      BY <1>3, <1>5, ReadKeepsForm
  <1>7. draft' = [draft EXCEPT ![c] = e]
    BY <1>2
  <1> HIDE DEF e, raw
  <1>8. /\ draft' \in [Connections -> Drafts]
        /\ \A b \in Connections : draft'[b] = IF b = c THEN e ELSE draft[b]
    BY <1>3, <1>6, <1>7 DEF ReadAsUsed
  <1>9. TypeOK'
    BY <1>1, <1>8 DEF Inv, TypeOK
  <1>10. SettingsWereSet'
    BY <1>1 DEF Inv, SettingsWereSet
  <1>11. CreatedOnce'
    BY <1>1, <1>6, <1>8, SameFileSystem DEF Inv, CreatedOnce
  <1> QED
    BY <1>9, <1>10, <1>11 DEF Inv

LEMMA InitializationFailsInv ==
  ASSUME Inv, NEW c \in Connections, InitializationFails(c)
  PROVE  Inv'
  <1>1. tempDir' \in {"local", "objfs"}
    BY DEF InitializationFails, Inv, TypeOK
  <1> QED
    BY <1>1, GivesUpInv DEF InitializationFails

(* Only the holder of the lock creates the file system, and only once.     *)
LEMMA InitializeInv ==
  ASSUME Inv, NEW c \in Connections, Initialize(c)
  PROVE  Inv'
  <1>1. Types /\ LockHeld
    BY TypeOKParts DEF Inv
  <1>2. /\ UNCHANGED <<value, secret, tempDir, lock, frozen, arg, opener, draft>>
        /\ pc[c] = "read" /\ impl' = draft[c]
        /\ NextToRead(impl') = {} /\ CreateFileSystem(impl') # None
    BY DEF Initialize
  <1>3. /\ pc' \in [Connections -> {"idle", "set", "wait", "read", "freeze"}]
        /\ pc'[c] = "freeze"
        /\ \A b \in Connections \ {c} : pc'[b] = pc[b]
    BY <1>1 DEF Initialize, Types
  <1>4. impl' \in Drafts /\ impl' # None /\ ReadAsUsed(impl')
    <2>1. ReadAsUsed(draft[c]) /\ draft[c] \in Drafts
      BY <1>1 DEF Types, Inv, CreatedOnce
    <2>2. None \notin Drafts
      BY RawAssumption
    <2> QED
      BY <1>2, <2>1, <2>2
  <1>5. Types'
    BY <1>1, <1>2, <1>3, <1>4 DEF Types
  <1>6. LockHeld'
    BY <1>1, <1>2, <1>3 DEF LockHeld
  <1>7. SettingsWereSet'
    BY <1>2, <1>3 DEF Inv, SettingsWereSet
  <1>8. \A b \in Connections \ {c} : pc'[b] # "read"
    BY <1>1, <1>2, <1>3 DEF LockHeld
  <1>9. frozen' = None
    BY <1>2 DEF Inv, CreatedOnce
  <1>10. CreatedOnce'
    BY <1>2, <1>3, <1>4, <1>8, <1>9 DEF Inv, CreatedOnce
  <1> QED
    BY <1>5, <1>6, <1>7, <1>10, TypeOKParts, PTL DEF Inv

(* A file system that was created has read all that its backend needs.     *)
LEMMA CreatedHas ==
  ASSUME CreatedOnce, impl # None
  PROVE  /\ impl \in Drafts
         /\ impl["backend"] \in {"local", "s3", "memory"}
         /\ \A n \in FieldsOf(impl["backend"]) : impl[n] # Unset
         /\ \A n \in Fields \ FieldsOf(impl["backend"]) : impl[n] = Unset
         /\ \A n \in Options : impl[n] # ""
         /\ impl["size"] \in DOMAIN NumberOf /\ impl["part"] \in DOMAIN NumberOf
         /\ impl["backend"] \in {"local", "s3"} => impl["root"] # ""
         /\ BackendOf(impl["backend"]) = impl["backend"]
         /\ \A n \in Names : impl[n] \in Texts \cup {Unset}
         /\ impl["secret"] \in DOMAIN SecretOf \cup {Unset}
  <1>1. ReadAsUsed(impl) /\ NextToRead(impl) = {} /\ CreateFileSystem(impl) # None
    BY DEF CreatedOnce
  <1>2. impl["backend"] # Unset /\ \A n \in FieldsOf(impl["backend"]) : impl[n] # Unset
    BY <1>1, ReadNext
  <1>3. impl["backend"] \in {"local", "s3", "memory"}
    BY <1>1 DEF CreateFileSystem, BuildOperator
  <1>4. \A n \in CacheFields : impl[n] # Unset
    BY <1>2, FieldsRead
  <1>5. BackendOf(impl["backend"]) = impl["backend"]
    BY <1>1, <1>2 DEF ReadAsUsed, BackendOf
  <1> QED
    BY <1>1, <1>2, <1>3, <1>4, <1>5 DEF ReadAsUsed, CacheFields

(* The snapshot is taken of what the file system was created from.         *)
LEMMA FreezeInv ==
  ASSUME Inv, NEW c \in Connections, FreezeSettingsSnapshot(c)
  PROVE  Inv'
  <1>1. Types /\ LockHeld
    BY TypeOKParts DEF Inv
  <1>2. /\ UNCHANGED <<value, secret, tempDir, impl, arg>>
        /\ pc[c] = "freeze" /\ lock' = None /\ Returns(c) /\ impl # None
    BY DEF FreezeSettingsSnapshot, Inv, CreatedOnce
  <1>3. CASE opener[c] = "none"
    <2>1. frozen' = frozen
      BY <1>3 DEF FreezeSettingsSnapshot
    <2> QED
      BY <1>1, <1>2, <2>1, GivesUpInv DEF Types
  <1>4. CASE opener[c] # "none"
    <2>1. frozen' = Snapshot(c, impl)
      BY <1>4 DEF FreezeSettingsSnapshot
    <2>2. /\ pc' \in [Connections -> {"idle", "set", "wait", "read", "freeze"}]
          /\ opener' \in [Connections -> {"client", "database", "none"}]
          /\ draft' \in [Connections -> Drafts]
          /\ pc'[c] = "idle" /\ draft'[c] = Nothing
          /\ \A b \in Connections \ {c} : pc'[b] = pc[b] /\ draft'[b] = draft[b]
      BY <1>1, <1>2, ReturnsStep
    <2>3. /\ \A n \in {"backend", "path"} \cup Options : frozen'[n] = impl[n]
          /\ frozen'["bucket"] = IF impl["backend"] = "s3" THEN impl["bucket"] ELSE ""
          /\ frozen'["root"] = IF impl["backend"] = "memory"
                                 THEN CurrentSetting(c, opener[c], "root")
                                 ELSE impl["root"]
          /\ DOMAIN frozen' = Names
          /\ frozen' = [n \in Names |-> frozen'[n]]
      BY <2>1 DEF Snapshot, Names, Options
    <2>4. CurrentSetting(c, opener[c], "root") \in Texts
      BY CurrentSettingType DEF Inv, TypeOK, Fields, Names, Options
    <2>5. \A n \in Names : frozen'[n] \in Texts
      <3>1. \A n \in {"backend", "path"} \cup Options : frozen'[n] \in Texts
        BY <1>2, <2>3, CreatedHas, FieldsRead DEF Inv, CacheFields, Names, Options
      <3>2. frozen'["bucket"] \in Texts
        BY <1>2, <2>3, CreatedHas, FieldsRead, TextFacts DEF Inv, Names, Options
      <3>3. frozen'["root"] \in Texts
        BY <1>2, <2>3, <2>4, CreatedHas, FieldsRead DEF Inv, Names, Options
      <3> QED
        BY <3>1, <3>2, <3>3 DEF Names, Options
    <2>6. frozen' \in [Names -> Texts]
      BY <2>3, <2>5
    <2>7. Types'
      BY <1>1, <1>2, <2>2, <2>6 DEF Types
    <2>8. LockHeld'
      BY <1>1, <1>2, <2>2, RawAssumption DEF LockHeld
    <2>9. SettingsWereSet'
      BY <1>2, <2>2 DEF Inv, SettingsWereSet
    <2>10. CreatedOnce'
      BY <1>2, <2>2, <2>3, NothingRead DEF Inv, CreatedOnce
    <2> QED
      BY <2>7, <2>8, <2>9, <2>10, TypeOKParts, PTL DEF Inv
  <1> QED
    BY <1>3, <1>4

LEMMA NextInv == Inv /\ [Next]_vars => Inv'
  <1> SUFFICES ASSUME Inv, [Next]_vars PROVE Inv'
    OBVIOUS
  <1>1. CASE \E text \in DOMAIN SecretOf \ {secret} : CreateSecret(text)
    BY <1>1, CreateSecretInv
  <1>7. CASE SetTemporaryDirectory
    BY <1>7, SetTemporaryDirectoryInv
  <1>2. ASSUME NEW c \in Connections, NEW t \in {s \in Settable : s[1] = c},
               SetCheck(c, t[2], t[3], t[4])
        PROVE  Inv'
    <2>1. t[2] \in Scopes /\ t[3] \in Names /\ t[4] \in Raw[t[3]]
      BY RawAssumption
    <2> QED
      BY <1>2, <2>1, SetCheckInv
  <1>3. ASSUME NEW c \in Connections, SetStore(c) \/ UseFileSystem(c) PROVE Inv'
    BY <1>3, SetStoreInv, UseFileSystemInv
  <1>4. ASSUME NEW c \in Connections, NEW o \in Openers, FileOperation(c, o)
        PROVE  Inv'
    BY <1>4, FileOperationInv
  <1>5. ASSUME NEW c \in Connections, InitializationStep(c) PROVE Inv'
    BY <1>5, BeginInitializationInv, ReadSettingInv, InitializationFailsInv,
       InitializeInv, FreezeInv DEF InitializationStep
  <1>6. CASE UNCHANGED vars
    BY <1>6 DEF vars, Inv, TypeOK, SettingsWereSet, CreatedOnce
  <1> QED
    BY <1>1, <1>2, <1>3, <1>4, <1>5, <1>6, <1>7 DEF Next

----------------------------------------------------------------------------
(* Inv is an invariant of every behaviour, whatever the connections set    *)
(* and open at the same time.                                              *)
THEOREM FileSystemInitInvariant == Spec => []Inv
  <1> QED
    BY InitInv, NextInv, PTL DEF Spec

(* The settings, the configuration and the snapshot are well typed, and    *)
(* initialization_lock is held exactly by the connection that initializes. *)
THEOREM FileSystemInitTypeOK == Spec => []TypeOK
  <1>1. Inv => TypeOK
    BY DEF Inv
  <1> QED
    BY <1>1, FileSystemInitInvariant, PTL

(* The credentials of an S3 store that could be built all sign.            *)
LEMMA AllCredentialsSign ==
  ASSUME NEW d, d["secret"] \in DOMAIN SecretOf,
         BuildS3Operator(RequireS3Config(d)) # None,
         NEW key \in {"key_id", "secret", "session_token"},
         SecretOf[d["secret"]][key] # ""
  PROVE  BuildS3Operator(RequireS3Config(d)).signature[key] = SecretOf[d["secret"]][key]
  <1> DEFINE keys == SecretOf[d["secret"]]
             s3 == RequireS3Config(d)
  <1>1. /\ s3.key_id = OptionalString(keys.key_id)
        /\ s3.secret = OptionalString(keys.secret)
        /\ s3.session_token = OptionalString(keys.session_token)
    BY DEF RequireS3Config
  <1>2. keys.key_id # None /\ keys.secret # None /\ keys.session_token # None
    BY SecretAssumption
  <1>3. /\ (s3.key_id # None) = (s3.secret # None)
        /\ s3.session_token # None => s3.key_id # None
    BY DEF BuildS3Operator
  <1>4. s3[key] = keys[key] /\ s3[key] # None
    BY <1>1, <1>2 DEF OptionalString
  <1>5. s3.key_id # None /\ s3.secret # None
    BY <1>3, <1>4
  <1>6. BuildS3Operator(s3).signature = [k \in DOMAIN Unsigned |-> s3[k]]
    BY <1>5 DEF BuildS3Operator
  <1>7. key \in DOMAIN Unsigned
    BY DEF Unsigned
  <1> QED
    BY <1>4, <1>6, <1>7

LEMMA InvCreatedAsConfigured == Inv => CreatedAsConfigured
  <1> SUFFICES ASSUME Inv, impl # None
               PROVE  CreatedAsConfigured
    BY DEF CreatedAsConfigured
  <1> DEFINE cache == ParseCacheConfig(impl)
             store == BuildOperator(impl)
             fs == CreateFileSystem(impl)
             path == impl["path"]
             size == NumberOf[impl["size"]]
  <1>1. /\ cache # None /\ store # None
        /\ fs = [signature |-> store.signature, disk |-> ObjectStoreCacheOptions(cache)]
    BY DEF Inv, CreatedOnce, CreateFileSystem
  <1>2. fs.signature = store.signature /\ fs.disk = ObjectStoreCacheOptions(cache)
    BY <1>1
  <1>3. ASSUME impl["backend"] = "s3", NEW key \in DOMAIN Unsigned,
               SecretOf[impl["secret"]][key] # ""
        PROVE  fs.signature[key] = SecretOf[impl["secret"]][key]
    <2>1. store = BuildS3Operator(RequireS3Config(impl))
      BY <1>3 DEF BuildOperator
    <2>2. key \in {"key_id", "secret", "session_token"}
      BY DEF Unsigned
    <2>3. impl["secret"] \in DOMAIN SecretOf
      BY <1>3, CreatedHas, FieldsRead DEF Inv
    <2> QED
      BY <1>1, <1>2, <1>3, <2>1, <2>2, <2>3, AllCredentialsSign
  <1>4. ASSUME path # ""
        PROVE  /\ fs.disk.root_folder = path
               /\ fs.disk.max_cache_size = size /\ fs.disk.max_cache_size > 0
    <2>1. size \in Nat
      BY CreatedHas, NumberAssumption DEF Inv
    <2>2. path # None
      <3>1. impl["path"] \in Texts
        BY CreatedHas, FieldsRead DEF Inv, CacheFields, Names, Options
      <3> QED
        BY <3>1, RawAssumption
    <2>3. OptionalString(path) = path
      BY <1>4 DEF OptionalString
    <2>4. size # 0 /\ cache = [path |-> path, size |-> size]
      BY <1>1, <2>2, <2>3 DEF ParseCacheConfig
    <2> HIDE DEF path, size, cache
    <2>5. cache.path = path /\ cache.size = size
      BY <2>4
    <2>6. fs.disk = [root_folder |-> path, max_cache_size |-> size]
      BY <1>2, <2>2, <2>5 DEF ObjectStoreCacheOptions
    <2> QED
      BY <2>1, <2>4, <2>6
  <1> QED
    BY <1>3, <1>4 DEF CreatedAsConfigured

(* A created file system signs with every credential of its secret, and    *)
(* its disk cache lies where it was put and has a limit, for all secrets   *)
(* and all cache options.                                                  *)
THEOREM FileSystemInitCreatedAsConfigured == Spec => []CreatedAsConfigured
  <1> QED
    BY FileSystemInitInvariant, InvCreatedAsConfigured, PTL

----------------------------------------------------------------------------
(* The set callback.                                                       *)

(* Reading a frozen setting again gives what the file system was created   *)
(* from.                                                                   *)
LEMMA FrozenReadsBack ==
  ASSUME Inv, frozen # None, NEW m \in Names, m \in FieldsOf(impl["backend"]),
         NEW d, d["backend"] = impl["backend"]
  PROVE  ReadValue(d, m, frozen[m]) = impl[m]
  <1> DEFINE b == impl["backend"]
  <1>1. /\ impl # None
        /\ frozen["backend"] = b
        /\ \A k \in {"path"} \cup Options : frozen[k] = impl[k]
        /\ frozen["bucket"] = IF b = "s3" THEN impl["bucket"] ELSE ""
        /\ b # "memory" => frozen["root"] = impl["root"]
    BY DEF Inv, CreatedOnce
  <1>2. /\ b \in {"local", "s3", "memory"} /\ BackendOf(b) = b
        /\ \A k \in Options : impl[k] # ""
        /\ b \in {"local", "s3"} => impl["root"] # ""
    BY <1>1, CreatedHas DEF Inv
  <1>3. CASE m = "backend"
    BY <1>1, <1>2, <1>3 DEF ReadValue
  <1>4. CASE m \in {"path"} \cup Options
    BY <1>1, <1>2, <1>4 DEF ReadValue, Options
  <1>5. CASE m = "bucket"
    <2>1. b = "s3"
      <3>1. "bucket" \in FieldsOf(b)
        BY <1>5
      <3> HIDE DEF b
      <3> QED
        BY <1>2, <3>1, FieldsRead
    <2> QED
      BY <1>1, <1>5, <2>1 DEF ReadValue, Options
  <1>6. CASE m = "root"
    <2>1. b \in {"local", "s3"}
      BY <1>2, <1>6, FieldsRead DEF CacheFields
    <2> QED
      BY <1>1, <1>2, <1>6, <2>1 DEF ReadValue, RootOf, Options
  <1> QED
    BY <1>3, <1>4, <1>5, <1>6 DEF Names, Options

(* Rebuilt gives the same configuration exactly when the setting that is   *)
(* changed is read as before, or is not read.                              *)
LEMMA RebuiltSame ==
  ASSUME Inv, frozen # None, NEW n \in Names, NEW raw
  PROVE  (Rebuilt(n, raw) = [m \in Names |-> impl[m]])
           <=> IF n = "backend" THEN BackendOf(raw) = impl["backend"]
               ELSE n \in FieldsOf(impl["backend"]) =>
                      ReadValue(impl, n, raw) = impl[n]
  <1> DEFINE b   == impl["backend"]
             now == [frozen EXCEPT ![n] = raw]
             nb  == BackendOf(now["backend"])
             d   == [Nothing EXCEPT !["backend"] = nb]
             Value(m) == IF m \in FieldsOf(nb) THEN ReadValue(d, m, now[m]) ELSE Unset
             same == Rebuilt(n, raw) = [m \in Names |-> impl[m]]
  <1>1. Rebuilt(n, raw) = [m \in Names |-> Value(m)]
    BY DEF Rebuilt
  <1>2. same <=> \A m \in Names : Value(m) = impl[m]
    <2> HIDE DEF Value
    <2> QED
      BY <1>1
  <1>3. frozen \in [Names -> Texts] /\ impl # None /\ frozen["backend"] = b
    BY DEF Inv, TypeOK, CreatedOnce
  <1>4. /\ now[n] = raw
        /\ \A m \in Names \ {n} : now[m] = frozen[m]
    BY <1>3
  <1>5. d["backend"] = nb
    BY DEF Nothing, Fields, Names, Options
  <1>6. /\ \A m \in FieldsOf(b) : impl[m] # Unset
        /\ \A m \in Fields \ FieldsOf(b) : impl[m] = Unset
        /\ BackendOf(b) = b
    BY <1>3, CreatedHas DEF Inv
  <1>7. n # "backend" => nb = b
    BY <1>3, <1>4, <1>6 DEF Names, Options
  <1>8. same => nb = b
    <2>1. "backend" \in FieldsOf(nb) /\ "backend" \in Names
      BY FieldsRead DEF Names, Options
    <2>2. Value("backend") = nb
      BY <2>1 DEF ReadValue
    <2> HIDE DEF Value, nb, same
    <2> QED
      BY <1>2, <2>1, <2>2
  <1>9. ASSUME nb = b, NEW m \in Names \ {n}
        PROVE  Value(m) = impl[m]
    <2>1. CASE m \in FieldsOf(b)
      <3>1. ReadValue(d, m, frozen[m]) = impl[m]
        <4> HIDE DEF d, nb
        <4> QED
          BY <1>5, <1>9, <2>1, FrozenReadsBack
      <3> QED
        BY <1>4, <1>9, <2>1, <3>1
    <2>2. CASE m \notin FieldsOf(b)
      BY <1>6, <1>9, <2>2 DEF Fields
    <2> QED
      BY <2>1, <2>2
  <1>10. nb = b => (same <=> Value(n) = impl[n])
    <2> HIDE DEF Value, nb, same
    <2> QED
      BY <1>2, <1>9
  <1>11. CASE n = "backend"
    <2>1. nb = BackendOf(raw) /\ "backend" \in FieldsOf(nb)
      BY <1>4, <1>11, FieldsRead
    <2>2. Value(n) = nb
      BY <1>4, <1>11, <2>1 DEF ReadValue
    <2> HIDE DEF Value, nb, same
    <2>3. same <=> nb = b
      BY <1>8, <1>10, <1>11, <2>2
    <2> QED
      BY <1>11, <2>1, <2>3 DEF same
  <1>12. CASE n # "backend"
    <2>1. ReadValue(d, n, raw) = ReadValue(impl, n, raw)
      <3>1. d["backend"] = impl["backend"]
        BY <1>5, <1>7, <1>12
      <3> HIDE DEF d
      <3> QED
        BY <1>12, <3>1 DEF ReadValue
    <2>2. Value(n) = IF n \in FieldsOf(b) THEN ReadValue(impl, n, raw) ELSE Unset
      BY <1>4, <1>7, <1>12, <2>1
    <2> HIDE DEF Value, nb, same, d, now
    <2>3. same <=> (n \in FieldsOf(b) => ReadValue(impl, n, raw) = impl[n])
      BY <1>6, <1>7, <1>10, <1>12, <2>2 DEF Fields
    <2> QED
      BY <1>12, <2>3 DEF same
  <1> QED
    BY <1>11, <1>12

LEMMA InvCallbackAgrees == Inv => CallbackAgrees
  <1> SUFFICES ASSUME Inv, frozen # None, NEW n \in Names, NEW raw \in Raw[n]
               PROVE  LET same == Rebuilt(n, raw) = [m \in Names |-> impl[m]]
                          nullOption == n \in Options /\ raw = ""
                      IN  IF Accepted(n, raw) THEN same
                          ELSE Used(n) /\ ~ nullOption => ~ same
    BY DEF CallbackAgrees
  <1> DEFINE b == impl["backend"]
             same == Rebuilt(n, raw) = [m \in Names |-> impl[m]]
  <1>1. /\ impl # None
        /\ frozen["backend"] = b
        /\ \A k \in {"path"} \cup Options : frozen[k] = impl[k]
        /\ frozen["bucket"] = IF b = "s3" THEN impl["bucket"] ELSE ""
        /\ b # "memory" => frozen["root"] = impl["root"]
    BY DEF Inv, CreatedOnce
  <1>2. /\ b \in {"local", "s3", "memory"} /\ \A k \in Options : impl[k] # ""
        /\ \A m \in FieldsOf(b) : impl[m] # Unset
        /\ \A m \in Fields \ FieldsOf(b) : impl[m] = Unset
    BY <1>1, CreatedHas DEF Inv
  <1>3. Accepted(n, raw) <=> Effective(n, raw) = frozen[n]
    BY DEF Accepted
  <1>4. CASE n = "backend"
    <2>1. same <=> BackendOf(raw) = b
      BY <1>4, RebuiltSame
    <2>2. Effective(n, raw) = BackendOf(raw)
      BY <1>4, BackendRead DEF Effective
    <2> HIDE DEF same
    <2>3. Accepted(n, raw) <=> same
      BY <1>1, <1>3, <1>4, <2>1, <2>2
    <2> QED
      BY <2>3 DEF same
  <1>5. CASE n \in {"path"} \cup Options
    <2>1. same <=> ReadValue(impl, n, raw) = impl[n]
      BY <1>5, RebuiltSame, FieldsRead DEF CacheFields, Options
    <2>2. Accepted(n, raw) <=> raw = impl[n]
      BY <1>1, <1>3, <1>5 DEF Effective, Options
    <2>3. raw # "" \/ n = "path" => ReadValue(impl, n, raw) = raw
      BY <1>5 DEF ReadValue, Options
    <2> HIDE DEF same
    <2>4. raw # "" \/ n = "path" => (Accepted(n, raw) <=> same)
      BY <2>1, <2>2, <2>3
    <2>5. raw = "" /\ n \in Options => ~Accepted(n, raw)
      BY <1>2, <2>2
    <2> QED
      BY <1>5, <2>4, <2>5 DEF same
  <1>6. CASE n = "bucket"
    <2>1. n \in FieldsOf(b) <=> b = "s3"
      <3> HIDE DEF b
      <3> QED
        BY <1>2, <1>6, FieldsRead
    <2>2. same <=> (b = "s3" => raw = impl[n])
      BY <1>6, <2>1, RebuiltSame DEF ReadValue, Options
    <2>3. Accepted(n, raw) <=> raw = IF b = "s3" THEN impl[n] ELSE ""
      BY <1>1, <1>3, <1>6 DEF Effective
    <2>4. Used(n) => b = "s3"
      BY <1>2, <2>1 DEF Used, Fields
    <2> HIDE DEF same
    <2>5. IF Accepted(n, raw) THEN same ELSE Used(n) => ~same
      BY <2>2, <2>3, <2>4
    <2> QED
      BY <2>5 DEF same
  <1>7. CASE n = "root"
    <2>1. n \in FieldsOf(b) <=> b # "memory"
      BY <1>2, <1>7, FieldsRead DEF CacheFields
    <2>2. same <=> (b # "memory" => RootOf(raw, b) = impl[n])
      BY <1>7, <2>1, RebuiltSame DEF ReadValue, Options
    <2>3. b # "memory" => (Accepted(n, raw) <=> RootOf(raw, b) = impl[n])
      BY <1>1, <1>3, <1>7 DEF Effective
    <2>4. Used(n) => b # "memory"
      BY <1>2, <2>1 DEF Used, Fields
    <2> HIDE DEF same
    <2>5. IF Accepted(n, raw) THEN same ELSE Used(n) => ~same
      BY <2>2, <2>3, <2>4
    <2> QED
      BY <2>5 DEF same
  <1> QED
    BY <1>4, <1>5, <1>6, <1>7 DEF Names, Options

(* CheckFrozenSlateDBSetting and ReadInitializationConfig agree on what a  *)
(* value means, for all spellings, backends and values, also when settings *)
(* changed while they were being read.                                     *)
THEOREM FileSystemInitCallbackAgrees == Spec => []CallbackAgrees
  <1> QED
    BY FileSystemInitInvariant, InvCallbackAgrees, PTL

(* Whoever gets past GetOrCreateFileSystem has moved the temporary         *)
(* directory off the object file system, unless it has no database.        *)
THEOREM FileSystemInitTemporaryFilesStayLocal == Spec => TemporaryFilesStayLocal
  <1>1. ASSUME Inv, [Next]_vars, NEW c \in Connections,
               pc[c] = "wait", pc'[c] # "wait", opener[c] # "none"
        PROVE  tempDir' = "local"
    <2>1. UseFileSystem(c) \/ BeginInitialization(c)
      <3>1. pc \in [Connections -> {"idle", "set", "wait", "read", "freeze"}]
        BY <1>1 DEF Inv, TypeOK
      <3>2. PICK b \in Connections :
              \/ \E t \in {s \in Settable : s[1] = b} :
                   SetCheck(b, t[2], t[3], t[4])
              \/ SetStore(b)
              \/ \E o \in Openers : FileOperation(b, o)
              \/ UseFileSystem(b)
              \/ InitializationStep(b)
        BY <1>1 DEF Next, vars, CreateSecret, SetTemporaryDirectory
      <3>3. \E v : pc' = [pc EXCEPT ![b] = v]
        BY <1>1, <3>2
        DEF SetCheck, SetStore, FileOperation, UseFileSystem, InitializationStep,
            BeginInitialization, ReadSetting, InitializationFails, Initialize,
            FreezeSettingsSnapshot, Returns
      <3>4. b = c
        BY <1>1, <3>1, <3>3
      <3> QED
        BY <1>1, <3>2, <3>4
        DEF SetCheck, SetStore, FileOperation, InitializationStep,
            ReadSetting, InitializationFails, Initialize, FreezeSettingsSnapshot
    <2> QED
      BY <1>1, <2>1
      DEF UseFileSystem, BeginInitialization, EnsureTemporaryFilesStayLocal
  <1>2. Inv /\ [Next]_vars =>
          [\A c \in Connections :
             pc[c] = "wait" /\ pc'[c] # "wait" /\ opener[c] # "none"
               => tempDir' = "local"]_vars
    BY <1>1
  <1> QED
    BY <1>2, FileSystemInitInvariant, PTL DEF Spec, TemporaryFilesStayLocal
=============================================================================
