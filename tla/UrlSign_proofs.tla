---------------------------- MODULE UrlSign_proofs ----------------------------
(* Proofs about UrlSign for any number of callers, requests and            *)
(* certificates, and any native methods that agree on what they share.     *)
EXTENDS UrlSign, FiniteSetTheorems, FunctionTheorems, WellFoundedInduction, TLAPS

-----------------------------------------------------------------------------
(* The tables                                                              *)

(* Every native method names getters of the table, and one at least that   *)
(* returns a fingerprint.                                                  *)
LEMMA NativeFacts ==
    ASSUME NEW e \in DOMAIN Native
    PROVE  /\ Native[e].prefix \in Getter
           /\ Native[e].secret \in Getter
           /\ Native[e].key \in Getter
           /\ Native[e].fingerprints \in Seq(Getter)
           /\ Native[e].fingerprints # <<>>
<1>1. \A g \in {"getIlPkgPrefix", "getMarsPkgPrefix", "getVenusPkgPrefix",
                "getCryptoWalletPkgPrefix", "getFmFingerprint",
                "getFmStageFingerprint", "getMarsFingerprint",
                "getMarsPlayFingerprint", "getMarsAmazonFingerprint",
                "getVenusPlayFingerprint", "getUrlSignatureKey",
                "getMarsUrlSignatureKey", "getWebUrlSignatureKey",
                "getCryptoWalletUrlSignatureKey", "getEncodedUrlSignatureKey",
                "getMarsEncodedUrlSignatureKey", "getEncodedWebUrlSignatureKey",
                "getEncodedCryptoWalletUrlSignatureKey"} : g \in Getter
    BY DEF Getter, PackageGetters, MarsFingerprintGetters, KeyGetters
<1>2. \A v \in DOMAIN Validators : /\ Validators[v] \in Seq(Getter)
                                   /\ Validators[v] # <<>>
  <2>1. \A g \in Getter : <<g>> \in Seq(Getter) /\ <<g>> # <<>>
      OBVIOUS
  <2>2. \A g, h \in Getter : <<g, h>> \in Seq(Getter) /\ <<g, h>> # <<>>
      OBVIOUS
  <2>3. /\ Validators["validateFingerprint"]
                = <<"getFmFingerprint", "getFmStageFingerprint">>
        /\ Validators["validateMarsFingerprint"] = <<"getMarsFingerprint">>
        /\ Validators["validateMarsPlayFingerprint"] = <<"getMarsPlayFingerprint">>
        /\ Validators["validateMarsAmazonFingerprint"] = <<"getMarsAmazonFingerprint">>
        /\ Validators["validateVenusPlayFingerprint"] = <<"getVenusPlayFingerprint">>
        /\ DOMAIN Validators =
               {"validateFingerprint", "validateMarsFingerprint",
                "validateMarsPlayFingerprint", "validateMarsAmazonFingerprint",
                "validateVenusPlayFingerprint"}
      BY DEF Validators
  <2>4. /\ "getFmFingerprint" \in Getter /\ "getFmStageFingerprint" \in Getter
        /\ "getMarsFingerprint" \in Getter /\ "getMarsPlayFingerprint" \in Getter
        /\ "getMarsAmazonFingerprint" \in Getter
        /\ "getVenusPlayFingerprint" \in Getter
      BY <1>1
  <2>5. /\ Validators["validateFingerprint"] \in Seq(Getter)
        /\ Validators["validateFingerprint"] # <<>>
      BY <2>2, <2>3, <2>4
  <2>6. \A v \in DOMAIN Validators \ {"validateFingerprint"} :
            \E g \in Getter : Validators[v] = <<g>>
      BY <2>3, <2>4
  <2> QED BY <2>1, <2>5, <2>6
<1>3. \A k, s, p \in Getter, v \in DOMAIN Validators :
          LET n == NativeMethod(k, s, p, v)
          IN  /\ n.prefix \in Getter /\ n.secret \in Getter /\ n.key \in Getter
              /\ n.fingerprints \in Seq(Getter) /\ n.fingerprints # <<>>
    BY <1>2 DEF NativeMethod
<1>4. \A v \in {"validateFingerprint", "validateMarsFingerprint",
                "validateMarsPlayFingerprint", "validateMarsAmazonFingerprint",
                "validateVenusPlayFingerprint"} : v \in DOMAIN Validators
    BY DEF Validators
<1>5. \E k, s, p \in Getter, v \in DOMAIN Validators :
          Native[e] = NativeMethod(k, s, p, v)
    BY <1>1, <1>4 DEF Native, Mars
<1> QED BY <1>3, <1>5

LEMMA GettersFacts ==
    ASSUME NEW e \in Entry
    PROVE  GettersOf(e) \subseteq Getter /\ FingerprintsOf(e) \subseteq GettersOf(e)
BY NativeFacts, EntryAssumption DEF GettersOf, FingerprintsOf

-----------------------------------------------------------------------------
(* The inductive invariant                                                 *)

Types ==
    /\ monitor \in Thread \cup {Free}
    /\ pc \in [Thread -> Pc]
    /\ call \in [Thread -> Call]
    /\ cells \in [Cell -> Value \cup {"null", "raw"}]
    /\ filling \subseteq Thread
    /\ buf \in Value \cup {"null"}
    /\ at \in [Thread -> [cert : Nat, fingerprint : Nat]]
    /\ hash \in [Thread -> Value \cup {"null"}]
    /\ fingerprints \in [Thread -> SUBSET Value]
    /\ secret \in [Thread -> Value \cup {"null"}]
    /\ key \in [Thread -> Value \cup {"null"}]
    /\ signature = [t \in Thread |-> signature[t]]

(* A thread inside a native method has the monitor.                        *)
Inside(t) == pc[t] \notin {"waiting", "done"}
Exclusive == \A t \in Thread : Inside(t) => monitor = t

(* A cell is empty, or being filled, or has the content every method that  *)
(* uses it expects.                                                        *)
CellsTrue ==
    /\ \A t \in filling : pc[t] \in Using /\ cells[CellAt(t)] = "raw"
    /\ \A e \in Entry : \A g \in GettersOf(e) :
           \/ cells[CellOf(g)] \in {"null", Content(g)}
           \/ /\ cells[CellOf(g)] = "raw"
              /\ \E t \in filling : CellAt(t) = CellOf(g)

Known(e) == {Content(g) : g \in FingerprintsOf(e)}

(* The certificates looked at so far are known, and the static buffer of   *)
(* SHA1() holds the digest of the present one until it is read.            *)
CheckTrue(t) ==
    LET e == call[t].entry
        F == Native[e].fingerprints
    IN  /\ pc[t] \in {"waiting", "prefix"} => at[t].cert = 1
        /\ pc[t] \in {"digest", "hex", "fingerprint", "compare"} =>
               /\ at[t].cert \in DOMAIN Certs
               /\ \A i \in DOMAIN Certs : i < at[t].cert => Certs[i] \in Known(e)
        /\ pc[t] = "hex" => buf = Certs[at[t].cert]
        /\ pc[t] \in {"fingerprint", "compare"} => hash[t] = Certs[at[t].cert]
        /\ pc[t] = "fingerprint" =>
               /\ at[t].fingerprint \in DOMAIN F
               /\ fingerprints[t] = {Content(F[i]) : i \in 1..(at[t].fingerprint - 1)}
        /\ pc[t] = "compare" => fingerprints[t] = Known(e)

(* What has been read is what the method's own getters return, and the     *)
(* static buffer of HMAC() holds the digest of the call until it is read.  *)
SignTrue(t) ==
    LET e == call[t].entry
        n == Native[e]
    IN  /\ pc[t] \notin {"waiting", "prefix", "done"} =>
               Content(n.prefix) = Package /\ Certs # <<>>
        /\ pc[t] \in {"secret", "key", "hmac", "sign"} =>
               \A i \in DOMAIN Certs : Certs[i] \in Known(e)
        /\ pc[t] \in {"key", "hmac"} => secret[t] = Content(n.secret)
        /\ pc[t] = "hmac" => key[t] = Content(n.key)
        /\ pc[t] = "sign" =>
               static_out_buffer = HMAC(call[t], Content(n.secret), Content(n.key))
        /\ pc[t] = "done" => signature[t] = Alone(call[t])

Good(t) == CheckTrue(t) /\ SignTrue(t)

IInv == Types /\ Exclusive /\ CellsTrue /\ \A t \in Thread : Good(t)

LEMMA InitIInv == Init => IInv
<1> SUFFICES ASSUME Init PROVE IInv
    OBVIOUS
<1> USE DEF Init
<1>1. Types
    BY CallerAssumption DEF Types, Pc
<1>2. Exclusive /\ CellsTrue
    BY GettersFacts DEF Exclusive, Inside, CellsTrue, Cell
<1>3. \A t \in Thread : Good(t)
    BY DEF Good, CheckTrue, SignTrue
<1> QED BY <1>1, <1>2, <1>3 DEF IInv

-----------------------------------------------------------------------------
(* Using a getter                                                          *)

LEMMA AtFacts ==
    ASSUME Types, NEW t \in Thread, CheckTrue(t), pc[t] \in Using
    PROVE  /\ GetterAt(t) \in GettersOf(call[t].entry)
           /\ CellAt(t) = CellOf(GetterAt(t)) /\ CellAt(t) \in Cell
           /\ call[t].entry \in Entry
           /\ pc[t] = "prefix" => GetterAt(t) = Native[call[t].entry].prefix
           /\ pc[t] = "secret" => GetterAt(t) = Native[call[t].entry].secret
           /\ pc[t] = "key" => GetterAt(t) = Native[call[t].entry].key
           /\ pc[t] = "fingerprint" =>
                  GetterAt(t) = Native[call[t].entry].fingerprints[at[t].fingerprint]
<1>1. call[t].entry \in Entry
    BY DEF Types, Call
<1>2. pc[t] = "fingerprint" =>
          at[t].fingerprint \in DOMAIN Native[call[t].entry].fingerprints
    BY DEF CheckTrue
<1>3. /\ pc[t] = "prefix" => GetterAt(t) = Native[call[t].entry].prefix
      /\ pc[t] = "secret" => GetterAt(t) = Native[call[t].entry].secret
      /\ pc[t] = "key" => GetterAt(t) = Native[call[t].entry].key
      /\ pc[t] = "fingerprint" =>
             GetterAt(t) = Native[call[t].entry].fingerprints[at[t].fingerprint]
    BY DEF GetterAt
<1>4. GetterAt(t) \in GettersOf(call[t].entry)
    BY <1>2, <1>3 DEF GettersOf, FingerprintsOf, Using
<1>5. CellAt(t) \in Cell
    BY <1>1, <1>4, GettersFacts DEF CellAt, Cell
<1> QED BY <1>1, <1>3, <1>4, <1>5 DEF CellAt

(* Only the thread inside fills cells.                                     *)
LEMMA OnlyOne ==
    ASSUME IInv, NEW t \in Thread, Inside(t) \/ monitor = Free
    PROVE  /\ \A u \in Thread : u # t => ~Inside(u)
           /\ filling \subseteq {t}
           /\ ~Inside(t) => filling = {}
<1>1. \A u \in Thread : u # t => ~Inside(u)
    BY CallerAssumption DEF IInv, Exclusive
<1>2. \A u \in filling : u \in Thread /\ Inside(u)
    BY DEF IInv, Types, CellsTrue, Inside, Using
<1> QED BY <1>1, <1>2

(* A thread reads from a cell what its own getter returns.                 *)
LEMMA HasContent ==
    ASSUME IInv, NEW t \in Thread, NEW place \in Using, Has(t, place)
    PROVE  cells[CellAt(t)] = Content(GetterAt(t)) /\ filling = {}
<1>1. Inside(t) /\ pc[t] \in Using /\ Types /\ CheckTrue(t)
    BY DEF Has, Inside, Using, IInv, Good
<1>2. filling = {}
    BY <1>1, OnlyOne DEF Has
<1>3. /\ GetterAt(t) \in GettersOf(call[t].entry)
      /\ CellAt(t) = CellOf(GetterAt(t)) /\ call[t].entry \in Entry
    BY <1>1, AtFacts
<1> QED BY <1>2, <1>3 DEF IInv, CellsTrue, Has

-----------------------------------------------------------------------------
(* Every step keeps the invariant.                                         *)

(* The other threads are outside, where only their answers matter.         *)
LEMMA Compose ==
    ASSUME IInv, Types', CellsTrue', NEW t \in Thread, Inside(t) \/ monitor = Free,
           Good(t)', Inside(t)' => monitor' = t, call' = call,
           \A u \in Thread : u # t => /\ pc'[u] = pc[u]
                                     /\ signature'[u] = signature[u]
                                     /\ at'[u] = at[u]
    PROVE  IInv'
<1>1. ASSUME NEW u \in Thread, u # t PROVE Good(u)' /\ ~Inside(u)'
  <2>1. ~Inside(u) /\ SignTrue(u)
      BY <1>1, OnlyOne DEF IInv, Good
  <2>2. pc'[u] \in {"waiting", "done"}
      BY <1>1, <2>1 DEF Inside
  <2>3. pc'[u] = "done" => signature'[u] = Alone(call'[u])
      BY <1>1, <2>1 DEF SignTrue
  <2>4. CheckTrue(u)'
      BY <1>1, <2>2 DEF CheckTrue, IInv, Good
  <2>5. SignTrue(u)'
      BY <2>2, <2>3 DEF SignTrue
  <2> QED BY <2>2, <2>4, <2>5 DEF Good, Inside
<1>2. Exclusive'
    BY <1>1 DEF Exclusive
<1> QED BY <1>1, <1>2 DEF IInv

LEMMA CellsKept ==
    ASSUME IInv, filling = {}, UNCHANGED <<cells, filling>>
    PROVE  CellsTrue'
BY DEF IInv, CellsTrue

LEMMA EnterStep ==
    ASSUME IInv, NEW t \in Thread, Enter(t) PROVE IInv'
<1>1. /\ pc' = [pc EXCEPT ![t] = "prefix"] /\ monitor' = t /\ monitor = Free
      /\ pc[t] = "waiting" /\ UNCHANGED <<call, static, local, signature>>
    BY DEF Enter, Goto
<1>2. Types'
    BY <1>1 DEF IInv, Types, Pc, Using, static, local
<1>3. CellsTrue'
    BY <1>1, OnlyOne, CellsKept DEF Inside, static
<1>4. pc'[t] = "prefix"
    BY <1>1 DEF IInv, Types
<1>5. Good(t)'
  <2>1. at'[t].cert = 1
      BY <1>1 DEF IInv, Good, CheckTrue, local
  <2>2. CheckTrue(t)'
      BY <1>4, <2>1 DEF CheckTrue
  <2>3. SignTrue(t)'
      BY <1>4 DEF SignTrue
  <2> QED BY <2>2, <2>3 DEF Good
<1> QED BY <1>1, <1>2, <1>3, <1>5, Compose DEF IInv, Types, local

LEMMA AllocateStep ==
    ASSUME IInv, NEW t \in Thread, Allocate(t) PROVE IInv'
<1>1. /\ pc[t] \in Using /\ t \notin filling
      /\ cells[CellAt(t)] = "null"
      /\ cells' = [cells EXCEPT ![CellAt(t)] = "raw"]
      /\ filling' = filling \cup {t}
      /\ UNCHANGED <<monitor, pc, call, static_out_buffer, buf, local, signature>>
    BY DEF Allocate
<1>2. Inside(t) /\ filling = {}
    BY <1>1, OnlyOne DEF Inside, Using
<1>3. CellAt(t) \in Cell /\ CellAt(t)' = CellAt(t)
    BY <1>1, AtFacts DEF IInv, Good, CellAt, GetterAt, local
<1>4. Types'
    BY <1>1 DEF IInv, Types, local
<1>5. CellsTrue'
  <2>1. \A u \in filling' : pc'[u] \in Using /\ cells'[CellAt(u)'] = "raw"
      BY <1>1, <1>2, <1>3 DEF IInv, Types
  <2>2. ASSUME NEW e \in Entry, NEW g \in GettersOf(e)
        PROVE  \/ cells'[CellOf(g)] \in {"null", Content(g)}
               \/ /\ cells'[CellOf(g)] = "raw"
                  /\ \E u \in filling' : CellAt(u)' = CellOf(g)
    <3>1. cells[CellOf(g)] \in {"null", Content(g)}
        BY <1>2 DEF IInv, CellsTrue
    <3>2. CellOf(g) \in Cell
        BY GettersFacts DEF Cell
    <3> QED BY <1>1, <1>3, <3>1, <3>2 DEF IInv, Types
  <2> QED BY <2>1, <2>2 DEF CellsTrue
<1>6. Good(t)'
    BY <1>1 DEF IInv, Good, CheckTrue, SignTrue, local
<1>7. Inside(t)' => monitor' = t
    BY <1>1, <1>2 DEF IInv, Exclusive
<1> QED BY <1>1, <1>2, <1>4, <1>5, <1>6, <1>7, Compose DEF local

LEMMA FillStep ==
    ASSUME IInv, NEW t \in Thread, Fill(t) PROVE IInv'
<1>1. /\ t \in filling
      /\ cells' = [cells EXCEPT ![CellAt(t)] = Content(GetterAt(t))]
      /\ filling' = filling \ {t}
      /\ UNCHANGED <<monitor, pc, call, static_out_buffer, buf, local, signature>>
    BY DEF Fill
<1>2. pc[t] \in Using /\ Inside(t)
    BY <1>1 DEF IInv, CellsTrue, Inside, Using
<1>3. filling = {t} /\ filling' = {}
    BY <1>1, <1>2, OnlyOne
<1>4. /\ GetterAt(t) \in GettersOf(call[t].entry) /\ call[t].entry \in Entry
      /\ CellAt(t) = CellOf(GetterAt(t)) /\ CellAt(t) \in Cell
    BY <1>2, AtFacts DEF IInv, Good
<1>5. Content(GetterAt(t)) \in Value
    BY <1>4, GettersFacts DEF Value
<1>6. Types'
    BY <1>1, <1>5 DEF IInv, Types, local
<1>7. CellsTrue'
  <2>1. ASSUME NEW e \in Entry, NEW g \in GettersOf(e)
        PROVE  cells'[CellOf(g)] \in {"null", Content(g)}
    <3>1. CellOf(g) \in Cell
        BY GettersFacts DEF Cell
    <3>2. CASE CellOf(g) = CellAt(t)
      <4>1. Content(g) = Content(GetterAt(t))
          BY <1>4, <3>2, OneVariant
      <4> QED BY <1>1, <1>4, <3>2, <4>1 DEF IInv, Types
    <3>3. CASE CellOf(g) # CellAt(t)
      <4>1. cells'[CellOf(g)] = cells[CellOf(g)]
          BY <1>1, <3>1, <3>3 DEF IInv, Types
      <4>2. cells[CellOf(g)] \in {"null", Content(g)}
          BY <1>3, <3>3 DEF IInv, CellsTrue
      <4> QED BY <4>1, <4>2
    <3> QED BY <3>2, <3>3
  <2> QED BY <1>3, <2>1 DEF CellsTrue
<1>8. Good(t)'
    BY <1>1 DEF IInv, Good, CheckTrue, SignTrue, local
<1>9. Inside(t)' => monitor' = t
    BY <1>1, <1>2 DEF IInv, Exclusive
<1> QED BY <1>1, <1>2, <1>6, <1>7, <1>8, <1>9, Compose DEF local

(* A call that leaves with the answer it would have had alone.             *)
LEMMA LeaveStep ==
    ASSUME IInv, NEW t \in Thread, Inside(t), Leave(t, Alone(call[t])), filling = {},
           Types', UNCHANGED <<call, static, at>>
    PROVE  IInv'
<1>1. CellsTrue'
    BY CellsKept DEF static
<1>2. pc'[t] = "done" /\ signature'[t] = Alone(call'[t])
    BY DEF Leave, Goto, IInv, Types
<1>3. Good(t)' /\ ~Inside(t)'
  <2>1. CheckTrue(t)'
      BY <1>2 DEF CheckTrue
  <2>2. SignTrue(t)'
      BY <1>2 DEF SignTrue
  <2> QED BY <1>2, <2>1, <2>2 DEF Good, Inside
<1> QED BY <1>1, <1>3, Compose DEF Leave, Goto, IInv, Types

LEMMA PrefixStep ==
    ASSUME IInv, NEW t \in Thread, Prefix(t) PROVE IInv'
<1>1. /\ pc[t] = "prefix" /\ UNCHANGED <<call, static, local>> /\ Inside(t)
      /\ Has(t, "prefix")
    BY DEF Prefix, Has, Inside
<1>2. /\ filling = {}
      /\ cells[CellAt(t)] = Content(Native[call[t].entry].prefix)
    BY <1>1, HasContent, AtFacts DEF Using, IInv, Good
<1>3. CASE cells[CellAt(t)] = Package /\ Certs # <<>>
  <2>1. pc' = [pc EXCEPT ![t] = "digest"] /\ UNCHANGED <<monitor, signature>>
      BY <1>3 DEF Prefix, Goto
  <2>2. Types'
      BY <1>1, <2>1 DEF IInv, Types, Pc, local, static
  <2>3. pc'[t] = "digest"
      BY <2>1 DEF IInv, Types
  <2>4. 1 \in DOMAIN Certs
      BY <1>3, CallerAssumption
  <2>5. at[t].cert = 1
      BY <1>1 DEF IInv, Good, CheckTrue
  <2>6. at'[t].cert = 1 /\ \A i \in DOMAIN Certs : ~(i < 1)
      BY <1>1, <2>5, CallerAssumption DEF local
  <2>7. CheckTrue(t)'
      BY <2>3, <2>4, <2>6 DEF CheckTrue
  <2>8. SignTrue(t)'
      BY <1>1, <1>2, <1>3, <2>3 DEF SignTrue
  <2> QED BY <1>1, <1>2, <2>1, <2>2, <2>7, <2>8, CellsKept, Compose
          DEF static, local, IInv, Exclusive, Good
<1>4. CASE ~(cells[CellAt(t)] = Package /\ Certs # <<>>)
  <2>1. Leave(t, <<>>)
      BY <1>4 DEF Prefix
  <2>2. Alone(call[t]) = <<>>
      BY <1>2, <1>4 DEF Alone
  <2>3. Types'
      BY <1>1, <2>1 DEF Leave, Goto, IInv, Types, Pc, local, static
  <2> QED BY <1>1, <1>2, <2>1, <2>2, <2>3, LeaveStep DEF local
<1> QED BY <1>3, <1>4

LEMMA DigestStep ==
    ASSUME IInv, NEW t \in Thread, Digest(t) PROVE IInv'
<1>1. /\ pc[t] = "digest" /\ buf' = Certs[at[t].cert]
      /\ pc' = [pc EXCEPT ![t] = "hex"] /\ Inside(t)
      /\ UNCHANGED <<monitor, call, cells, filling, static_out_buffer, local,
                     signature>>
    BY DEF Digest, Goto, Inside
<1>2. at[t].cert \in DOMAIN Certs
    BY <1>1 DEF IInv, Good, CheckTrue
<1>3. filling = {}
    BY <1>1, OnlyOne DEF IInv, CellsTrue, Using
<1>4. Types'
    BY <1>1, <1>2, CallerAssumption DEF IInv, Types, Pc, local
<1>5. pc'[t] = "hex"
    BY <1>1 DEF IInv, Types
<1>6. CheckTrue(t)'
    BY <1>1, <1>5 DEF IInv, Good, CheckTrue, local
<1>7. SignTrue(t)'
    BY <1>1, <1>5 DEF IInv, Good, SignTrue
<1> QED BY <1>1, <1>3, <1>4, <1>6, <1>7, CellsKept, Compose
        DEF IInv, Exclusive, Good, local

LEMMA HexStep ==
    ASSUME IInv, NEW t \in Thread, Hex(t) PROVE IInv'
<1>1. /\ pc[t] = "hex" /\ hash' = [hash EXCEPT ![t] = buf]
      /\ fingerprints' = [fingerprints EXCEPT ![t] = {}]
      /\ at' = [at EXCEPT ![t].fingerprint = 1]
      /\ pc' = [pc EXCEPT ![t] = "fingerprint"] /\ Inside(t)
      /\ UNCHANGED <<monitor, call, static, secret, key, signature>>
    BY DEF Hex, Goto, Inside
<1>2. filling = {}
    BY <1>1, OnlyOne DEF IInv, CellsTrue, Using
<1>3. Types'
    BY <1>1 DEF IInv, Types, Pc, Using, static
<1>4. /\ pc'[t] = "fingerprint" /\ hash'[t] = buf /\ fingerprints'[t] = {}
      /\ at'[t].cert = at[t].cert /\ at'[t].fingerprint = 1
    BY <1>1 DEF IInv, Types
<1>5. 1 \in DOMAIN Native[call[t].entry].fingerprints
  <2>1. call[t].entry \in DOMAIN Native
      BY EntryAssumption DEF IInv, Types, Call
  <2> QED BY <2>1, NativeFacts
<1>6. /\ buf = Certs[at[t].cert] /\ at[t].cert \in DOMAIN Certs
      /\ \A i \in DOMAIN Certs : i < at[t].cert => Certs[i] \in Known(call[t].entry)
    BY <1>1 DEF IInv, Good, CheckTrue
<1>7. CheckTrue(t)'
  <2>1. {Content(Native[call[t].entry].fingerprints[i]) : i \in 1..(1 - 1)} = {}
      OBVIOUS
  <2> QED BY <1>1, <1>4, <1>5, <1>6, <2>1 DEF CheckTrue
<1>8. SignTrue(t)'
    BY <1>1, <1>4 DEF IInv, Good, SignTrue
<1> QED BY <1>1, <1>2, <1>3, <1>7, <1>8, CellsKept, Compose
        DEF IInv, Exclusive, Good, static

LEMMA FingerprintStep ==
    ASSUME IInv, NEW t \in Thread, Fingerprint(t) PROVE IInv'
<1> DEFINE e == call[t].entry
           F == Native[e].fingerprints
           n == at[t].fingerprint
           g == GetterAt(t)
<1>1. /\ pc[t] = "fingerprint" /\ Inside(t) /\ Has(t, "fingerprint")
      /\ fingerprints' = [fingerprints EXCEPT ![t] = @ \cup {cells[CellAt(t)]}]
      /\ UNCHANGED <<monitor, call, static, hash, secret, key, signature>>
    BY DEF Fingerprint, Has, Inside
<1>2. filling = {} /\ cells[CellAt(t)] = Content(g)
    BY <1>1, HasContent DEF Using
<1>3. g = F[n] /\ g \in GettersOf(e) /\ e \in Entry
    BY <1>1, AtFacts DEF Using, IInv, Good
<1>4. /\ n \in DOMAIN F /\ fingerprints[t] = {Content(F[i]) : i \in 1..(n - 1)}
      /\ at[t].cert \in DOMAIN Certs /\ hash[t] = Certs[at[t].cert]
      /\ \A i \in DOMAIN Certs : i < at[t].cert => Certs[i] \in Known(e)
    BY <1>1 DEF IInv, Good, CheckTrue
<1>5. /\ DOMAIN F = 1..Len(F) /\ Len(F) \in Nat
  <2>1. F \in Seq(Getter)
      BY <1>3, EntryAssumption, NativeFacts
  <2> QED BY <2>1
<1>6. n \in Nat /\ n >= 1 /\ n <= Len(F)
    BY <1>4, <1>5
<1>7. fingerprints'[t] = {Content(F[i]) : i \in 1..n}
  <2>1. fingerprints'[t] = fingerprints[t] \cup {Content(F[n])}
      BY <1>1, <1>2, <1>3 DEF IInv, Types
  <2>2. 1..n = (1..(n - 1)) \cup {n}
      BY <1>6
  <2> HIDE DEF F, n
  <2> QED BY <1>4, <2>1, <2>2
<1>8. Content(g) \in Value
    BY <1>3, GettersFacts DEF Value
<1>9. SignTrue(t)
    BY DEF IInv, Good
<1>10. CASE n < Len(F)
  <2>1. at' = [at EXCEPT ![t].fingerprint = @ + 1] /\ UNCHANGED pc
      BY <1>10 DEF Fingerprint
  <2>2. Types'
      BY <1>1, <1>2, <1>8, <2>1 DEF IInv, Types, static
  <2>3. at'[t].fingerprint = n + 1 /\ at'[t].cert = at[t].cert
      BY <2>1 DEF IInv, Types
  <2>4. n + 1 \in DOMAIN F /\ (n + 1) - 1 = n
      BY <1>5, <1>6, <1>10
  <2>5. CheckTrue(t)'
      BY <1>1, <1>4, <1>7, <2>1, <2>3, <2>4 DEF CheckTrue
  <2>6. SignTrue(t)'
      BY <1>1, <1>9, <2>1 DEF SignTrue
  <2> QED BY <1>1, <1>2, <2>1, <2>2, <2>5, <2>6, CellsKept, Compose
          DEF IInv, Exclusive, Good, static
<1>11. CASE ~(n < Len(F))
  <2>1. pc' = [pc EXCEPT ![t] = "compare"] /\ UNCHANGED at
      BY <1>11 DEF Fingerprint, Goto
  <2>2. Types'
      BY <1>1, <1>2, <1>8, <2>1 DEF IInv, Types, Pc, static
  <2>3. pc'[t] = "compare"
      BY <2>1 DEF IInv, Types
  <2>4. 1..n = DOMAIN F
      BY <1>5, <1>6, <1>11
  <2>5. fingerprints'[t] = Known(e)
    <3>1. FingerprintsOf(e) = {F[i] : i \in DOMAIN F}
        BY DEF FingerprintsOf
    <3> HIDE DEF F, n, e
    <3> QED BY <1>7, <2>4, <3>1 DEF Known
  <2>6. CheckTrue(t)'
      BY <1>1, <1>4, <2>1, <2>3, <2>5 DEF CheckTrue
  <2>7. SignTrue(t)'
      BY <1>1, <1>9, <2>3 DEF SignTrue
  <2> QED BY <1>1, <1>2, <2>1, <2>2, <2>6, <2>7, CellsKept, Compose
          DEF IInv, Exclusive, Good, static
<1> QED BY <1>10, <1>11

LEMMA CompareStep ==
    ASSUME IInv, NEW t \in Thread, Compare(t) PROVE IInv'
<1> DEFINE e == call[t].entry
<1>1. /\ pc[t] = "compare" /\ Inside(t)
      /\ UNCHANGED <<call, static, hash, fingerprints, secret, key>>
    BY DEF Compare, Inside
<1>2. filling = {}
    BY <1>1, OnlyOne DEF IInv, CellsTrue, Using
<1>3. /\ at[t].cert \in DOMAIN Certs /\ hash[t] = Certs[at[t].cert]
      /\ \A i \in DOMAIN Certs : i < at[t].cert => Certs[i] \in Known(e)
      /\ fingerprints[t] = Known(e)
    BY <1>1 DEF IInv, Good, CheckTrue
<1>4. SignTrue(t)
    BY DEF IInv, Good
<1>5. /\ DOMAIN Certs = 1..Len(Certs) /\ Len(Certs) \in Nat
      /\ at[t].cert \in Nat
    BY CallerAssumption DEF IInv, Types
<1>6. CASE hash[t] \notin fingerprints[t]
  <2>1. Leave(t, <<>>) /\ UNCHANGED at
      BY <1>6 DEF Compare
  <2>2. Alone(call[t]) = <<>>
      BY <1>3, <1>6 DEF Alone, Known
  <2>3. Types'
      BY <1>1, <2>1 DEF Leave, Goto, IInv, Types, Pc, static
  <2> QED BY <1>1, <1>2, <2>1, <2>2, <2>3, LeaveStep
<1>7. CASE hash[t] \in fingerprints[t] /\ at[t].cert < Len(Certs)
  <2>1. /\ at' = [at EXCEPT ![t].cert = @ + 1]
        /\ pc' = [pc EXCEPT ![t] = "digest"]
        /\ UNCHANGED <<monitor, signature>>
      BY <1>7 DEF Compare, Goto
  <2>2. Types'
      BY <1>1, <2>1 DEF IInv, Types, Pc, static
  <2>3. pc'[t] = "digest" /\ at'[t].cert = at[t].cert + 1
      BY <2>1 DEF IInv, Types
  <2>4. /\ at[t].cert + 1 \in DOMAIN Certs
        /\ \A i \in DOMAIN Certs :
               i < at[t].cert + 1 => i < at[t].cert \/ i = at[t].cert
      BY <1>3, <1>5, <1>7
  <2>5. CheckTrue(t)'
      BY <1>1, <1>3, <1>7, <2>3, <2>4 DEF CheckTrue
  <2>6. SignTrue(t)'
      BY <1>1, <1>4, <2>3 DEF SignTrue
  <2> QED BY <1>1, <1>2, <2>1, <2>2, <2>5, <2>6, CellsKept, Compose
          DEF IInv, Types, Exclusive, Good, static
<1>8. CASE hash[t] \in fingerprints[t] /\ ~(at[t].cert < Len(Certs))
  <2>1. /\ pc' = [pc EXCEPT ![t] = "secret"]
        /\ UNCHANGED <<monitor, at, signature>>
      BY <1>8 DEF Compare, Goto
  <2>2. Types'
      BY <1>1, <2>1 DEF IInv, Types, Pc, Using, static
  <2>3. pc'[t] = "secret"
      BY <2>1 DEF IInv, Types
  <2>4. \A i \in DOMAIN Certs : i < at[t].cert \/ i = at[t].cert
      BY <1>3, <1>5, <1>8
  <2>5. \A i \in DOMAIN Certs : Certs[i] \in Known(e)
      BY <1>3, <1>8, <2>4
  <2>6. CheckTrue(t)'
      BY <2>3 DEF CheckTrue
  <2>7. SignTrue(t)'
      BY <1>1, <1>4, <2>3, <2>5 DEF SignTrue
  <2> QED BY <1>1, <1>2, <2>1, <2>2, <2>6, <2>7, CellsKept, Compose
          DEF IInv, Exclusive, Good, static
<1> QED BY <1>6, <1>7, <1>8

LEMMA SecretStep ==
    ASSUME IInv, NEW t \in Thread, Secret(t) PROVE IInv'
<1>1. /\ pc[t] = "secret" /\ Inside(t) /\ Has(t, "secret")
      /\ secret' = [secret EXCEPT ![t] = cells[CellAt(t)]]
      /\ pc' = [pc EXCEPT ![t] = "key"]
      /\ UNCHANGED <<monitor, call, static, at, hash, fingerprints, key, signature>>
    BY DEF Secret, Has, Goto, Inside
<1>2. /\ filling = {} /\ call[t].entry \in DOMAIN Native
      /\ cells[CellAt(t)] = Content(Native[call[t].entry].secret)
    BY <1>1, HasContent, AtFacts, EntryAssumption DEF Using, IInv, Good
<1>3. Content(Native[call[t].entry].secret) \in Value
    BY <1>2, NativeFacts DEF Value
<1>4. Types'
    BY <1>1, <1>2, <1>3 DEF IInv, Types, Pc, Using, static
<1>5. pc'[t] = "key" /\ secret'[t] = Content(Native[call[t].entry].secret)
    BY <1>1, <1>2 DEF IInv, Types
<1>6. SignTrue(t)
    BY DEF IInv, Good
<1>7. CheckTrue(t)'
    BY <1>5 DEF CheckTrue
<1>8. SignTrue(t)'
    BY <1>1, <1>5, <1>6 DEF SignTrue
<1> QED BY <1>1, <1>2, <1>4, <1>7, <1>8, CellsKept, Compose
        DEF IInv, Exclusive, Good, static

LEMMA KeyStep ==
    ASSUME IInv, NEW t \in Thread, Key(t) PROVE IInv'
<1>1. /\ pc[t] = "key" /\ Inside(t) /\ Has(t, "key")
      /\ key' = [key EXCEPT ![t] = cells[CellAt(t)]]
      /\ pc' = [pc EXCEPT ![t] = "hmac"]
      /\ UNCHANGED <<monitor, call, static, at, hash, fingerprints, secret,
                     signature>>
    BY DEF Key, Has, Goto, Inside
<1>2. /\ filling = {} /\ call[t].entry \in DOMAIN Native
      /\ cells[CellAt(t)] = Content(Native[call[t].entry].key)
    BY <1>1, HasContent, AtFacts, EntryAssumption DEF Using, IInv, Good
<1>3. Content(Native[call[t].entry].key) \in Value
    BY <1>2, NativeFacts DEF Value
<1>4. Types'
    BY <1>1, <1>2, <1>3 DEF IInv, Types, Pc, static
<1>5. pc'[t] = "hmac" /\ key'[t] = Content(Native[call[t].entry].key)
    BY <1>1, <1>2 DEF IInv, Types
<1>6. SignTrue(t)
    BY DEF IInv, Good
<1>7. CheckTrue(t)'
    BY <1>5 DEF CheckTrue
<1>8. SignTrue(t)'
    BY <1>1, <1>5, <1>6 DEF SignTrue
<1> QED BY <1>1, <1>2, <1>4, <1>7, <1>8, CellsKept, Compose
        DEF IInv, Exclusive, Good, static

LEMMA HmacStep ==
    ASSUME IInv, NEW t \in Thread, Hmac(t) PROVE IInv'
<1>1. /\ pc[t] = "hmac" /\ Inside(t)
      /\ static_out_buffer' = HMAC(call[t], secret[t], key[t])
      /\ pc' = [pc EXCEPT ![t] = "sign"]
      /\ UNCHANGED <<monitor, call, cells, filling, buf, local, signature>>
    BY DEF Hmac, Goto, Inside
<1>2. filling = {}
    BY <1>1, OnlyOne DEF IInv, CellsTrue, Using
<1>3. Types'
    BY <1>1 DEF IInv, Types, Pc, local
<1>4. SignTrue(t)
    BY DEF IInv, Good
<1>5. pc'[t] = "sign"
    BY <1>1 DEF IInv, Types
<1>6. CheckTrue(t)'
    BY <1>5 DEF CheckTrue
<1>7. SignTrue(t)'
    BY <1>1, <1>4, <1>5 DEF SignTrue
<1> QED BY <1>1, <1>2, <1>3, <1>6, <1>7, CellsKept, Compose
        DEF IInv, Exclusive, Good, local

LEMMA SignStep ==
    ASSUME IInv, NEW t \in Thread, Sign(t) PROVE IInv'
<1>1. /\ pc[t] = "sign" /\ Inside(t) /\ Leave(t, static_out_buffer)
      /\ UNCHANGED <<call, static, local>>
    BY DEF Sign, Inside
<1>2. filling = {}
    BY <1>1, OnlyOne DEF IInv, CellsTrue, Using
<1>3. Types'
    BY <1>1 DEF Leave, Goto, IInv, Types, Pc, local, static
<1>4. SignTrue(t)
    BY DEF IInv, Good
<1>5. static_out_buffer = Alone(call[t])
    BY <1>1, <1>4 DEF SignTrue, Alone, Known
<1> QED BY <1>1, <1>2, <1>3, <1>5, LeaveStep DEF local

(* IInv holds in every reachable state.                                    *)
THEOREM Inductive == Spec => []IInv
<1>1. IInv /\ [Next]_vars => IInv'
  <2> SUFFICES ASSUME IInv, [Next]_vars PROVE IInv'
      OBVIOUS
  <2>1. CASE UNCHANGED vars
    <3>1. Types' /\ Exclusive' /\ CellsTrue'
        BY <2>1 DEF vars, static, local, IInv, Types, Exclusive, Inside, CellsTrue,
                    CellAt, GetterAt
    <3>2. \A t \in Thread : Good(t)'
        BY <2>1 DEF vars, static, local, IInv, Good, CheckTrue, SignTrue
    <3> QED BY <3>1, <3>2 DEF IInv
  <2>2. ASSUME NEW t \in Thread, Step(t) PROVE IInv'
      BY <2>2, EnterStep, AllocateStep, FillStep, PrefixStep, DigestStep, HexStep,
         FingerprintStep, CompareStep, SecretStep, KeyStep, HmacStep, SignStep DEF Step
  <2> QED BY <2>1, <2>2 DEF Next, Done
<1> QED BY <1>1, InitIInv, PTL DEF Spec

(* The state stays well typed: a thread is always at a certificate of the  *)
(* package and at a getter of its native method.                           *)
THEOREM TypeCorrect == Spec => []TypeOK
<1>1. IInv => TypeOK
  <2> SUFFICES ASSUME IInv, NEW t \in Thread
               PROVE  /\ pc[t] \in {"digest", "hex", "fingerprint", "compare"}
                             => at[t].cert \in DOMAIN Certs
                      /\ pc[t] \in Using => GetterAt(t) \in Getter
      BY DEF IInv, Types, TypeOK
  <2>1. CheckTrue(t) /\ Types
      BY DEF IInv, Good
  <2>2. pc[t] \in Using => GetterAt(t) \in Getter
      BY <2>1, AtFacts, GettersFacts
  <2> QED BY <2>1, <2>2 DEF CheckTrue
<1> QED BY <1>1, Inductive, PTL

(* However many calls of whatever methods meet, each answers as if it were *)
(* the only one: the monitor keeps the static cells and buffers apart.     *)
THEOREM AlwaysAsIfAlone == Spec => []AsIfAlone
<1>1. IInv => AsIfAlone
    BY DEF IInv, Good, SignTrue, AsIfAlone
<1> QED BY <1>1, Inductive, PTL

-----------------------------------------------------------------------------
(* Sorting                                                                 *)

Ordered(r) == \A i, j \in DOMAIN r : i < j => r[i] <= r[j]

(* A list of different numbers can be put in order: at place i goes the    *)
(* one that i of them are not after.                                       *)
LEMMA SortExists ==
    ASSUME NEW s \in Seq(Nat), IsInjective(s)
    PROVE  \E p \in Bijection(DOMAIN s, DOMAIN s) :
               \A i, j \in DOMAIN s : i < j => s[p[i]] <= s[p[j]]
<1> DEFINE n == Len(s)
           D == 1 .. n
           upTo == [j \in D |-> {k \in D : s[k] <= s[j]}]
           rank == [j \in D |-> Cardinality(upTo[j])]
<1>1. /\ n \in Nat /\ DOMAIN s = D /\ \A j \in D : s[j] \in Nat
      /\ \A j, k \in D : s[j] = s[k] => j = k
    BY DEF IsInjective
<1>2. IsFiniteSet(D) /\ Cardinality(D) = n
    BY <1>1, FS_Interval
<1>3. ASSUME NEW j \in D
      PROVE  /\ upTo[j] \subseteq D /\ j \in upTo[j]
             /\ \A k : k \in upTo[j] <=> k \in D /\ s[k] <= s[j]
    BY <1>1
<1> HIDE DEF upTo, D, n
<1>4. ASSUME NEW j \in D
      PROVE  IsFiniteSet(upTo[j]) /\ Cardinality(upTo[j]) \in 1 .. n
    <2>1. upTo[j] \in SUBSET D /\ upTo[j] # {}
        BY <1>3
    <2>2. IsFiniteSet(upTo[j]) /\ Cardinality(upTo[j]) <= n
        BY <2>1, <1>2, FS_Subset
    <2>3. Cardinality(upTo[j]) \in Nat /\ Cardinality(upTo[j]) # 0
        BY <2>1, <2>2, FS_CardinalityType, FS_EmptySet
    <2> QED BY <1>1, <2>2, <2>3
<1>5. ASSUME NEW j \in D, NEW k \in D, s[j] < s[k]
      PROVE  Cardinality(upTo[j]) < Cardinality(upTo[k])
    <2>1. s[j] \in Nat /\ s[k] \in Nat /\ \A l \in D : s[l] \in Nat
        BY <1>1
    <2>2. k \in upTo[k] /\ k \notin upTo[j]
        BY <1>3, <1>5, <2>1
    <2>3. ASSUME NEW l \in upTo[j] PROVE l \in upTo[k]
        <3>1. l \in D /\ s[l] <= s[j] /\ s[l] \in Nat
            BY <1>3, <2>1
        <3> QED BY <3>1, <2>1, <1>3, <1>5
    <2>4. upTo[j] \in SUBSET upTo[k] /\ upTo[j] # upTo[k]
        BY <2>2, <2>3
    <2>5. /\ Cardinality(upTo[j]) <= Cardinality(upTo[k])
          /\ Cardinality(upTo[j]) # Cardinality(upTo[k])
        BY <2>4, <1>4, FS_Subset
    <2>6. Cardinality(upTo[j]) \in Nat /\ Cardinality(upTo[k]) \in Nat
        BY <1>1, <1>4
    <2> QED BY <2>5, <2>6
<1>6. ASSUME NEW j \in D, NEW k \in D, rank[j] = rank[k] PROVE j = k
    <2>1. s[j] \in Nat /\ s[k] \in Nat
        BY <1>1
    <2>2. ~(s[j] < s[k]) /\ ~(s[k] < s[j])
        BY <1>4, <1>5, <1>6
    <2> QED BY <2>1, <2>2, <1>1
<1>7. rank \in [D -> D]
    BY <1>4 DEF D
<1> HIDE DEF rank
<1>8. rank \in Injection(D, D)
    BY <1>6, <1>7, Fun_IsInj
<1>9. rank \in Surjection(D, D)
    BY <1>2, <1>8, FS_Injection
<1>10. rank \in Bijection(D, D)
    BY <1>8, <1>9, Fun_IsBij
<1> PICK p : p = Inverse(rank, D, D)
    OBVIOUS
<1>11. p \in Bijection(D, D)
    BY <1>10, Fun_BijInverse
<1>12. ASSUME NEW i \in D PROVE p[i] \in D /\ rank[p[i]] = i
    <2>1. rank \in [D -> D] /\ i \in Range(rank)
        BY <1>7, <1>9, Fun_SurjectionProperties
    <2>2. rank[p[i]] = i
        BY <2>1, Fun_InverseProperties
    <2>3. p[i] \in D
        BY <1>11, Fun_BijectionProperties
    <2> QED BY <2>2, <2>3
<1>13. ASSUME NEW i \in D, NEW j \in D, i < j PROVE s[p[i]] <= s[p[j]]
    <2>1. p[i] \in D /\ p[j] \in D /\ rank[p[i]] = i /\ rank[p[j]] = j
        BY <1>12
    <2>2. s[p[i]] \in Nat /\ s[p[j]] \in Nat
        BY <2>1, <1>1
    <2>3. ~(s[p[j]] < s[p[i]])
        <3>1. i \in Nat /\ j \in Nat
            BY <1>1 DEF D
        <3>2. Cardinality(upTo[p[i]]) = i /\ Cardinality(upTo[p[j]]) = j
            BY <2>1 DEF rank
        <3>3. s[p[j]] < s[p[i]] => Cardinality(upTo[p[j]]) < Cardinality(upTo[p[i]])
            BY <2>1, <1>5
        <3> QED BY <3>1, <3>2, <3>3, <1>13
    <2> QED BY <2>2, <2>3
<1> QED BY <1>1, <1>11, <1>13

(* Sorting keeps the elements, and each of them once.                      *)
LEMMA SortFacts ==
    ASSUME NEW s \in Seq(Nat), IsInjective(s)
    PROVE  /\ encodeParams(s) \in [1 .. Len(s) -> Nat]
           /\ Elements(encodeParams(s)) = Elements(s)
           /\ IsInjective(encodeParams(s)) /\ Ordered(encodeParams(s))
<1>1. DOMAIN s = 1 .. Len(s) /\ \A i \in 1 .. Len(s) : s[i] \in Nat
    OBVIOUS
<1> DEFINE D == DOMAIN s
           A == {[i \in D |-> s[p[i]]] : p \in Bijection(D, D)}
<1>2. \E r \in A : \A i, j \in D : i < j => r[i] <= r[j]
    <2>1. PICK p \in Bijection(D, D) : \A i, j \in D : i < j => s[p[i]] <= s[p[j]]
        BY SortExists
    <2> HIDE DEF D
    <2> DEFINE r == [i \in D |-> s[p[i]]]
    <2>2. r \in A
        OBVIOUS
    <2>3. \A i, j \in D : i < j => r[i] <= r[j]
        BY <2>1
    <2> QED BY <2>2, <2>3
<1> PICK r : r = encodeParams(s)
    OBVIOUS
<1>3. r \in A /\ \A i, j \in D : i < j => r[i] <= r[j]
    BY <1>2 DEF encodeParams
<1>4. PICK p \in Bijection(D, D) : r = [i \in D |-> s[p[i]]]
    BY <1>3
<1>5. \A i \in D : s[i] \in Nat
    BY <1>1
<1> HIDE DEF A, D
<1>6. /\ \A i \in D : p[i] \in D
      /\ \A i, j \in D : p[i] = p[j] => i = j
      /\ \A j \in D : \E i \in D : p[i] = j
    <2>1. p \in Surjection(D, D) /\ p \in [D -> D]
        BY Fun_BijectionProperties
    <2>2. \A i, j \in D : p[i] = p[j] => i = j
        BY Fun_BijectionProperties
    <2>3. \A j \in D : \E i \in D : p[i] = j
        BY <2>1, Fun_SurjectionProperties
    <2> QED BY <2>1, <2>2, <2>3
<1>7. DOMAIN r = D /\ r \in [D -> Nat] /\ \A i \in D : r[i] = s[p[i]]
    BY <1>4, <1>5, <1>6
<1>8. Elements(r) = Elements(s)
    <2>1. ASSUME NEW i \in D PROVE r[i] \in {s[j] : j \in D}
        <3>1. p[i] \in D /\ r[i] = s[p[i]]
            BY <1>6, <1>7
        <3> QED BY <3>1
    <2>2. ASSUME NEW j \in D PROVE s[j] \in {r[i] : i \in D}
        <3>1. PICK i \in D : p[i] = j
            BY <1>6
        <3> QED BY <3>1, <1>7
    <2> QED BY <2>1, <2>2, <1>7 DEF Elements, D
<1>9. IsInjective(r)
    <2>1. \A i, j \in D : s[i] = s[j] => i = j
        BY DEF IsInjective, D
    <2>2. ASSUME NEW i \in D, NEW j \in D, r[i] = r[j] PROVE i = j
        <3>1. p[i] \in D /\ p[j] \in D /\ s[p[i]] = s[p[j]]
            BY <2>2, <1>6, <1>7
        <3>2. p[i] = p[j]
            BY <2>1, <3>1
        <3> QED BY <3>2, <1>6
    <2> QED BY <2>2, <1>7 DEF IsInjective
<1>10. Ordered(r)
    BY <1>3, <1>7 DEF Ordered
<1>11. D = 1 .. Len(s)
    BY <1>1 DEF D
<1> QED BY <1>7, <1>8, <1>9, <1>10, <1>11

(* There is one way only to put different numbers in order.                *)
LEMMA OneOrder ==
    ASSUME NEW n \in Nat, NEW q \in [1 .. n -> Nat], NEW r \in [1 .. n -> Nat],
           IsInjective(q), IsInjective(r), Ordered(q), Ordered(r),
           Elements(q) = Elements(r)
    PROVE  q = r
<1> DEFINE D == {i \in 1 .. n : q[i] # r[i]}
<1>1. /\ \A i, j \in 1 .. n : i < j => q[i] < q[j] /\ r[i] < r[j]
      /\ \A i, j \in 1 .. n : /\ q[i] = q[j] => i = j
                              /\ r[i] = r[j] => i = j
    <2>1. /\ \A i, j \in 1 .. n : i < j => q[i] <= q[j] /\ r[i] <= r[j]
          /\ \A i, j \in 1 .. n : /\ q[i] = q[j] => i = j
                                  /\ r[i] = r[j] => i = j
        BY DEF Ordered, IsInjective
    <2> QED BY <2>1
<1>2. ASSUME D # {} PROVE FALSE
    <2>1. D \subseteq Nat
        OBVIOUS
    <2>2. PICK i \in D : \A j \in D : ~(<<j, i>> \in OpToRel(<, Nat))
        BY <1>2, <2>1, NatLessThanWellFounded, WFMin
    <2>3. ASSUME NEW j \in 1 .. n, j < i PROVE q[j] = r[j]
        <3>1. j \in Nat /\ i \in Nat /\ <<j, i>> \in Nat \X Nat
            OBVIOUS
        <3> QED BY <3>1, <2>2, <2>3 DEF OpToRel
    <2>4. i \in 1 .. n /\ q[i] # r[i]
        OBVIOUS
    <2>5. PICK j \in 1 .. n : r[j] = q[i]
        BY <2>4 DEF Elements
    <2>6. PICK k \in 1 .. n : q[k] = r[i]
        BY <2>4 DEF Elements
    <2> HIDE DEF D
    <2>7. i < j
        BY <2>3, <2>4, <2>5, <1>1
    <2>8. i < k
        BY <2>3, <2>4, <2>6, <1>1
    <2>9. r[i] < r[j] /\ q[i] < q[k]
        BY <2>4, <2>7, <2>8, <1>1
    <2> QED BY <2>4, <2>5, <2>6, <2>9
<1> QED BY <1>2

(* However the hash map hands the parameters over, the message that is     *)
(* signed is the same.                                                     *)
LEMMA SameSort ==
    ASSUME NEW s \in Seq(Nat), NEW t \in Seq(Nat), IsInjective(s), IsInjective(t),
           Elements(s) = Elements(t)
    PROVE  encodeParams(s) = encodeParams(t)
<1>1. ASSUME NEW u \in Seq(Nat), IsInjective(u)
      PROVE  IsFiniteSet(Elements(u)) /\ Cardinality(Elements(u)) = Len(u)
    <2> PICK n, E : n = Len(u) /\ E = Elements(u)
        OBVIOUS
    <2>1. n \in Nat /\ DOMAIN u = 1 .. n /\ u \in [1 .. n -> E]
        BY DEF Elements
    <2>2. \A i, j \in 1 .. n : u[i] = u[j] => i = j
        BY <1>1, <2>1 DEF IsInjective
    <2>3. \A e \in E : \E i \in 1 .. n : u[i] = e
        BY <2>1 DEF Elements
    <2>4. u \in Surjection(1 .. n, E)
        BY <2>1, <2>3, Fun_IsSurj
    <2>5. u \in Bijection(1 .. n, E)
        <3>1. u \in Injection(1 .. n, E)
            BY <2>1, <2>2, Fun_IsInj
        <3> QED BY <3>1, <2>4, Fun_IsBij
    <2>6. IsFiniteSet(1 .. n) /\ Cardinality(1 .. n) = n
        <3>1. n \in Nat
            BY <2>1
        <3>2. 1 \in Int /\ n \in Int
            BY <3>1
        <3>3. IsFiniteSet(1 .. n)
            BY <3>2, FS_Interval
        <3>4. Cardinality(1 .. n) = IF 1 > n THEN 0 ELSE n - 1 + 1
            BY <3>2, FS_Interval
        <3> QED BY <3>1, <3>3, <3>4
    <2> QED BY <2>5, <2>6, FS_Bijection DEF ExistsBijection
<1>2. Len(s) = Len(t) /\ Len(s) \in Nat
    BY <1>1
<1> QED BY <1>2, SortFacts, OneOrder

(* The same parameters in another order have the same signature.           *)
THEOREM AlwaysOrderIsIrrelevant == Spec => []OrderIsIrrelevant
<1>1. IInv => OrderIsIrrelevant
  <2> SUFFICES ASSUME IInv, NEW t \in Thread, NEW u \in Thread,
                      pc[t] = "done", pc[u] = "done",
                      call[t].entry = call[u].entry, call[t].request = call[u].request,
                      Elements(call[t].params) = Elements(call[u].params)
               PROVE  signature[t] = signature[u]
      BY DEF OrderIsIrrelevant
  <2>1. signature[t] = Alone(call[t]) /\ signature[u] = Alone(call[u])
      BY DEF IInv, Good, SignTrue
  <2>2. call[t] \in Call /\ call[u] \in Call
      BY DEF IInv, Types
  <2>3. encodeParams(call[t].params) = encodeParams(call[u].params)
      BY <2>2, SameSort, CallerAssumption DEF Call
  <2> QED BY <2>1, <2>3 DEF Alone, HMAC
<1> QED BY <1>1, Inductive, PTL
=============================================================================
