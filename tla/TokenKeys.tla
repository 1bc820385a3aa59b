------------------------------ MODULE TokenKeys ------------------------------
(***************************************************************************)
(* utils/auth.go: the key pair that signs and checks the tokens of the     *)
(* clients.  It is kept in two package variables without a lock, loaded    *)
(* from two files on the first use, and generated and written to them when *)
(* one of the files is missing, or cannot be read or parsed.  Every request *)
(* and every login uses it, each in a goroutine of its own.                *)
(*                                                                         *)
(* A key pair is one value; signing is remembering which key signed.  A    *)
(* nil key and a file without a PEM block are dereferenced, in a handler   *)
(* nothing recovers from: the process ends.                                *)
(*                                                                         *)
(* History: tokens has the keys of the tokens clients got; spoiled that    *)
(* the files may have lost their pair: two calls generated one at the same *)
(* time, a pair was generated in the place of one that could not be read,  *)
(* or the private key of a new pair could not be put in its place.         *)
(***************************************************************************)
EXTENDS StateFiles

CONSTANTS
  Call,         \* goroutines that sign or check a token
  NoKey         \* nil

ASSUME KeysAssumption == NoKey \notin Key \cup {Missing, Torn}

VARIABLES
  privateKey, publicKey,     \* the package variables
  pc,
  job,          \* per call: the key of the token to check, or NoKey to sign one
  private, public,           \* per call: the pair it loaded or generated
  tokens, spoiled

globalVars == <<privateKey, publicKey>>
callVars   == <<pc, job, private, public>>
keyHistory == <<tokens, spoiled>>
keyVars    == <<globalVars, callVars, keyHistory>>

Generating == {"generated", "private", "between", "public"}
Storing    == {"store", "private last", "public last"}

TokenKeysTypeOK ==
  /\ privateKey \in Key \cup {NoKey} /\ publicKey \in Key \cup {NoKey}
  /\ pc \in [Call -> {"idle", "load", "read", "use"} \cup Generating \cup Storing]
  /\ job \in [Call -> Key \cup {NoKey}]
  /\ private \in [Call -> Key \cup {NoKey, Torn}]
  /\ public \in [Call -> Key \cup {NoKey}]
  /\ tokens \subseteq Key /\ spoiled \in BOOLEAN

\* Clients still have tokens of an earlier run, if there was one.
TokenKeysInit ==
  /\ privateKey = NoKey /\ publicKey = NoKey
  /\ pc = [c \in Call |-> "idle"]
  /\ job = [c \in Call |-> NoKey]
  /\ private = [c \in Call |-> NoKey] /\ public = [c \in Call |-> NoKey]
  /\ tokens = {disk["private"]} \cap Key
  /\ spoiled = FALSE

EndKeys ==
  /\ privateKey' = NoKey /\ publicKey' = NoKey
  /\ pc' = [c \in Call |-> "idle"]
  /\ job' = [c \in Call |-> NoKey]
  /\ private' = [c \in Call |-> NoKey] /\ public' = [c \in Call |-> NoKey]
  /\ UNCHANGED keyHistory

Panic == EndServer /\ EndKeys /\ UNCHANGED disk

Goto(c, step) == pc' = [pc EXCEPT ![c] = step]

Hold(c, priv, pub) ==
  /\ private' = [private EXCEPT ![c] = priv]
  /\ public' = [public EXCEPT ![c] = pub]

Done(c) == Goto(c, "idle") /\ Hold(c, NoKey, NoKey) /\ job' = [job EXCEPT ![c] = NoKey]

memoryUnchanged ==
  UNCHANGED <<phase, serverVars, workVars, banHistory, saveHistory>>

-----------------------------------------------------------------------------
(* GenerateToken and GetTokenClaims begin with getKeys *)

getKeys(c, token) ==
  /\ phase = "running"
  /\ pc[c] = "idle"
  /\ job' = [job EXCEPT ![c] = token]
  /\ Goto(c, IF privateKey = NoKey THEN "load" ELSE "use")
  /\ UNCHANGED <<disk, globalVars, private, public, keyHistory>> /\ memoryUnchanged

GenerateToken(c) == getKeys(c, NoKey)

GetTokenClaims(c) == \E k \in tokens : getKeys(c, k)

\* Keys nobody has: not in a file, a variable or a token.
FreshKeys ==
  Key \ ({privateKey, publicKey, disk["private"], disk["public"]} \cup tokens
         \cup {private[c] : c \in Call} \cup {public[c] : c \in Call})

Generate(c) ==
  /\ \E k \in FreshKeys : Hold(c, k, k)
  /\ Goto(c, "generated")
  /\ spoiled' = (\/ spoiled
                 \/ Exists("private") /\ Exists("public")
                 \/ \E d \in Call \ {c} : pc[d] \in Generating)
  /\ UNCHANGED <<disk, tokens>>

\* Names that no file can have are files that do not exist and cannot be made.
CannotWrite(c) ==
  /\ ~settings.keys
  /\ Hold(c, NoKey, NoKey)
  /\ Goto(c, "store")
  /\ UNCHANGED <<disk, keyHistory>>

\* loadKeyFromFile reads the private key when both files exist; if that fails, or
\* one of them does not exist, generateKey goes on with a new pair.
loadKeyFromFile(c) ==
  /\ pc[c] = "load"
  /\ \/ CannotWrite(c)
     \/ /\ settings.keys
        /\ Exists("private") /\ Exists("public")
        /\ Hold(c, disk["private"], NoKey)
        /\ Goto(c, "read")
        /\ UNCHANGED <<disk, keyHistory>>
     \/ settings.keys /\ Generate(c)
  /\ UNCHANGED <<globalVars, job>> /\ memoryUnchanged

\* Mutant: what could not be decoded is used all the same.
decodeAnything(c) ==
  /\ pc[c] = "read"
  /\ Hold(c, private[c], disk["public"])
  /\ Goto(c, "store")
  /\ UNCHANGED <<disk, globalVars, job, keyHistory>> /\ memoryUnchanged

\* Reads the public key and decodes both.  An error of reading, or of parsing what
\* is in a PEM block, makes generateKey go on with a new pair.
decode(c) ==
  /\ pc[c] = "read"
  /\ \/ Torn \in {private[c], disk["public"]} /\ Panic
     \/ /\ Torn \notin {private[c], disk["public"]}
        /\ Hold(c, private[c], disk["public"])
        /\ Goto(c, "store")
        /\ UNCHANGED <<disk, globalVars, job, keyHistory>> /\ memoryUnchanged
     \/ Generate(c) /\ UNCHANGED <<globalVars, job>> /\ memoryUnchanged

\* generateKey writes one file after the other, the second also when the first
\* could not be opened or written.  public[c] = NoKey: an error.
OpenKeyFile(c, from, file, to, next) ==
  /\ pc[c] = from
  /\ \/ Truncate(file) /\ Goto(c, to) /\ UNCHANGED <<public, spoiled>>
     \/ /\ Goto(c, next) /\ UNCHANGED disk
        /\ public' = [public EXCEPT ![c] = NoKey]
        /\ spoiled' = (spoiled \/ file = "private")
  /\ UNCHANGED <<globalVars, job, private, tokens>> /\ memoryUnchanged

FillKeyFile(c, from, file, to) ==
  /\ pc[c] = from
  /\ \/ Fill(file, private[c]) /\ UNCHANGED public
     \/ UNCHANGED disk /\ public' = [public EXCEPT ![c] = NoKey]
  /\ Goto(c, to)
  /\ UNCHANGED <<globalVars, job, private, keyHistory>> /\ memoryUnchanged

generateKey(c) ==
  \/ OpenKeyFile(c, "generated", "private", "private", "between")
  \/ FillKeyFile(c, "private", "private", "between")
  \/ OpenKeyFile(c, "between", "public", "public", "store")
  \/ FillKeyFile(c, "public", "public", "store")

\* Mutant: an error of the files is not an error of the keys.
StoreUnsaved(c) ==
  /\ pc[c] = "store"
  /\ privateKey' = private[c] /\ publicKey' = private[c]
  /\ Goto(c, "use")
  /\ UNCHANGED <<disk, job, private, public, keyHistory>> /\ memoryUnchanged

StorePrivate(c) ==
  /\ privateKey' = IF public[c] = NoKey THEN NoKey ELSE private[c]
  /\ UNCHANGED publicKey

StorePublic(c) == publicKey' = public[c] /\ UNCHANGED privateKey

NextStore(c, step) == Goto(c, step) /\ UNCHANGED <<job, private, public>>

Stored(c) == IF public[c] = NoKey THEN Done(c) ELSE NextStore(c, "use")

\* privateKey, publicKey, err = generateKey(..): two stores without a lock, in
\* either order as others see them.  An error stores nil in both.
Store(c) ==
  /\ \/ pc[c] = "store" /\ StorePrivate(c) /\ NextStore(c, "public last")
     \/ pc[c] = "store" /\ StorePublic(c) /\ NextStore(c, "private last")
     \/ pc[c] = "public last" /\ StorePublic(c) /\ Stored(c)
     \/ pc[c] = "private last" /\ StorePrivate(c) /\ Stored(c)
  /\ UNCHANGED <<disk, keyHistory>> /\ memoryUnchanged

\* The variables are read again, and used: a token is signed or checked.
UseKey(c) ==
  /\ pc[c] = "use"
  /\ IF job[c] = NoKey
     THEN IF privateKey = NoKey THEN Panic
          ELSE tokens' = tokens \cup {privateKey} /\ Done(c)
               /\ UNCHANGED <<disk, globalVars, spoiled>> /\ memoryUnchanged
     ELSE IF publicKey = NoKey THEN Panic
          ELSE Done(c) /\ UNCHANGED <<disk, globalVars, keyHistory>> /\ memoryUnchanged

KeysStep ==
  \E c \in Call :
    \/ GenerateToken(c) \/ GetTokenClaims(c)
    \/ loadKeyFromFile(c) \/ decode(c) \/ generateKey(c) \/ Store(c) \/ UseKey(c)

-----------------------------------------------------------------------------
(* Properties *)

\* Every token a client was given is accepted as long as it lasts, by this and
\* by every later run of the server: crashes at any point, a write that is cut
\* off and the unlocked variables lose no token.  What can lose one is that two
\* calls generate at the same time, that a pair that is there cannot be read, so
\* that another takes its place, or that the private key file cannot be opened.
TokensStayValid ==
  ~spoiled =>
    \A k \in tokens :
      /\ disk["private"] = k /\ disk["public"] = k
      /\ privateKey \in {k, NoKey} /\ publicKey \in {k, NoKey}
=============================================================================
