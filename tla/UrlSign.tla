-------------------------------- MODULE UrlSign -------------------------------
(***************************************************************************)
(* Request signing: UrlSignature (Java) and its native library.  Every     *)
(* request of the application is signed on the thread that sends it        *)
(* (UrlSignatureInterceptor), and the page in the web view may ask for a   *)
(* signature of its own at any time (InstaWebFragment).                    *)
(*                                                                         *)
(* The native code keeps its constants in static cells that the first      *)
(* caller allocates and then fills, and both digests are returned in a     *)
(* static buffer that the caller reads afterwards.  Only the monitor of    *)
(* the class (static synchronized native) keeps the callers apart.         *)
(*                                                                         *)
(* Strings are symbols; an encoded parameter is its place in the order of  *)
(* strings.  encodeUrl() changes nothing in this build                     *)
(* (FM_URL_SIGN_NO_ENCODING).                                              *)
(***************************************************************************)
EXTENDS Naturals, Sequences, Functions

CONSTANTS
    Thread,     \* callers, each with one call
    Request,    \* method and base URL of a request
    Order,      \* parameters (key=value, numbered in the order of strings)
                \* as a hash map hands them over, each once
    Entry,      \* native methods the build uses
    Package,    \* prefix the name of the package has
    Certs,      \* fingerprints of the certificates of the package
    Free        \* nobody is in a native method

-----------------------------------------------------------------------------
(* The native methods                                                      *)

(* Which cell a getter fills, and with what.                               *)
PackageGetters ==
    [getIlPkgPrefix           |-> <<"IL_PKG_PREFIX", "instalive">>,
     getFmFingerprint         |-> <<"IL_FINGERPRINT", "il">>,
     getFmStageFingerprint    |-> <<"IL_STAGE_FINGERPRINT", "il stage">>,
     getCryptoWalletPkgPrefix |-> <<"CRYPTOWALLET_PKG_PREFIX", "noomi">>,
     getMarsPkgPrefix         |-> <<"MARS_PKG_PREFIX", "instalive">>,
     getVenusPkgPrefix        |-> <<"MARS_PKG_PREFIX", "instalive">>]

(* These four share a cell: the first caller decides.                      *)
MarsFingerprintGetters ==
    [getMarsFingerprint       |-> <<"MARS_FINGERPRINT", "mars">>,
     getMarsPlayFingerprint   |-> <<"MARS_FINGERPRINT", "mars play">>,
     getMarsAmazonFingerprint |-> <<"MARS_FINGERPRINT", "mars amazon">>,
     getVenusPlayFingerprint  |-> <<"MARS_FINGERPRINT", "venus play">>]

KeyGetters ==
    [getUrlSignatureKey        |-> <<"URL_SIGNATURE_KEY", "key">>,
     getEncodedUrlSignatureKey |-> <<"URL_ENCODED_SIGNATURE_KEY", "secret">>,
     getMarsUrlSignatureKey    |-> <<"URL_SIGNATURE_KEY", "key">>,
     getMarsEncodedUrlSignatureKey
         |-> <<"URL_ENCODED_SIGNATURE_KEY", "secret">>,
     getCryptoWalletUrlSignatureKey
         |-> <<"CRYPTOWALLET_URL_SIGNATURE_KEY", "wallet key">>,
     getEncodedCryptoWalletUrlSignatureKey
         |-> <<"CRYPTOWALLET_URL_ENCODED_SIGNATURE_KEY", "wallet secret">>,
     getWebUrlSignatureKey     |-> <<"WEB_URL_SIGNATURE_KEY", "web key">>,
     getEncodedWebUrlSignatureKey
         |-> <<"WEB_URL_ENCODED_SIGNATURE_KEY", "web secret">>]

Getter == DOMAIN PackageGetters \cup DOMAIN MarsFingerprintGetters
              \cup DOMAIN KeyGetters

CellAndContent(g) == IF g \in DOMAIN PackageGetters THEN PackageGetters[g]
                     ELSE IF g \in DOMAIN KeyGetters THEN KeyGetters[g]
                     ELSE MarsFingerprintGetters[g]
CellOf(g) == CellAndContent(g)[1]
Content(g) == CellAndContent(g)[2]
Cell == {CellOf(g) : g \in Getter}
Value == {Content(g) : g \in Getter}

Validators ==
    [validateFingerprint           |-> <<"getFmFingerprint", "getFmStageFingerprint">>,
     validateMarsFingerprint       |-> <<"getMarsFingerprint">>,
     validateMarsPlayFingerprint   |-> <<"getMarsPlayFingerprint">>,
     validateMarsAmazonFingerprint |-> <<"getMarsAmazonFingerprint">>,
     validateVenusPlayFingerprint  |-> <<"getVenusPlayFingerprint">>]

NativeMethod(key, secret, prefix, validator) ==
    [key |-> key, secret |-> secret, prefix |-> prefix,
     fingerprints |-> Validators[validator]]

Mars(prefix, validator) ==
    NativeMethod("getMarsUrlSignatureKey", "getMarsEncodedUrlSignatureKey",
                 prefix, validator)

Native ==
    [signUrl |-> NativeMethod("getUrlSignatureKey", "getEncodedUrlSignatureKey",
                              "getIlPkgPrefix", "validateFingerprint"),
     signWebUrl |-> NativeMethod("getWebUrlSignatureKey",
                                 "getEncodedWebUrlSignatureKey",
                                 "getIlPkgPrefix", "validateFingerprint"),
     signCryptoWalletUrl |-> NativeMethod("getCryptoWalletUrlSignatureKey",
                                          "getEncodedCryptoWalletUrlSignatureKey",
                                          "getCryptoWalletPkgPrefix",
                                          "validateFingerprint"),
     signMarsUrl        |-> Mars("getMarsPkgPrefix", "validateMarsFingerprint"),
     signMarsWebUrl     |-> Mars("getMarsPkgPrefix", "validateMarsFingerprint"),
     signMarsPlayUrl    |-> Mars("getMarsPkgPrefix", "validateMarsPlayFingerprint"),
     signMarsWebPlayUrl |-> Mars("getMarsPkgPrefix", "validateMarsPlayFingerprint"),
     signMarsAmazonUrl  |-> Mars("getMarsPkgPrefix", "validateMarsAmazonFingerprint"),
     signVenusUrl       |-> Mars("getVenusPkgPrefix", "validateMarsFingerprint"),
     signVenusWebUrl    |-> Mars("getVenusPkgPrefix", "validateMarsFingerprint"),
     signVenusPlayUrl   |-> Mars("getVenusPkgPrefix", "validateVenusPlayFingerprint")]

FingerprintsOf(e) == {Native[e].fingerprints[i] : i \in DOMAIN Native[e].fingerprints}
GettersOf(e) == {Native[e].key, Native[e].secret, Native[e].prefix} \cup FingerprintsOf(e)

ASSUME EntryAssumption == Entry \subseteq DOMAIN Native
ASSUME CallerAssumption == /\ Free \notin Thread
                           /\ Order \subseteq Seq(Nat)
                           /\ \A s \in Order : IsInjective(s)
                           /\ Certs \in Seq(Value)

(* The methods of one build that share a cell agree on its content: the    *)
(* four fingerprints of MARS_FINGERPRINT belong to different builds.       *)
ASSUME OneVariant ==
    \A e, f \in Entry : \A g \in GettersOf(e), h \in GettersOf(f) :
        CellOf(g) = CellOf(h) => Content(g) = Content(h)

-----------------------------------------------------------------------------
VARIABLES
    monitor,        \* the thread in a native method, or Free
    pc,             \* pc[t]: where thread t is
    call,           \* call[t]: what it asks for
    cells,          \* the static cells: "null", "raw" (allocated), or filled
    filling,        \* threads that have allocated a cell and will fill it
    static_out_buffer,  \* of HMAC()
    buf,            \* of SHA1()
    at,             \* at[t]: the certificate and the fingerprint t is at
    hash,           \* hash[t]: the digest of that certificate
    fingerprints,   \* fingerprints[t]: those it may be
    secret,
    key,
    signature       \* signature[t]: what the call returned, <<>> for ""

static == <<cells, filling, static_out_buffer, buf>>
local  == <<at, hash, fingerprints, secret, key>>
vars   == <<monitor, pc, call, static, local, signature>>

Call == [entry : Entry, request : Request, params : Order]

(* The places where a thread uses a getter, and all others.                *)
Using == {"prefix", "fingerprint", "secret", "key"}
Pc == Using \cup {"waiting", "digest", "hex", "compare", "hmac", "sign", "done"}

(* The getter t uses at its present place.                                 *)
GetterAt(t) ==
    LET n == Native[call[t].entry]
    IN  CASE pc[t] = "prefix"      -> n.prefix
          [] pc[t] = "fingerprint" -> n.fingerprints[at[t].fingerprint]
          [] pc[t] = "secret"      -> n.secret
          [] pc[t] = "key"         -> n.key
CellAt(t) == CellOf(GetterAt(t))

encodeParamsAsGiven(s) == s   \* faulty: does not sort
encodeParams(s) ==
    CHOOSE r \in {[i \in DOMAIN s |-> s[p[i]]] : p \in Bijection(DOMAIN s, DOMAIN s)} :
        \A i, j \in DOMAIN s : i < j => r[i] <= r[j]

(* The digest of the message signUrl() builds, which ends with the secret. *)
HMAC(c, s, k) == <<c.request, encodeParams(c.params), s, k>>

TypeOK ==
    /\ monitor \in Thread \cup {Free}
    /\ pc \in [Thread -> Pc]
    /\ call \in [Thread -> Call]
    /\ cells \in [Cell -> Value \cup {"null", "raw"}]
    /\ filling \subseteq Thread
    /\ buf \in Value \cup {"null"}
    /\ at \in [Thread -> [cert : Nat, fingerprint : Nat]]
    /\ hash \in [Thread -> Value \cup {"null"}]
    /\ fingerprints \in [Thread -> SUBSET Value]
    /\ secret \in [Thread -> Value \cup {"null"}]
    /\ key \in [Thread -> Value \cup {"null"}]
    /\ \A t \in Thread : /\ pc[t] \in {"digest", "hex", "fingerprint", "compare"}
                             => at[t].cert \in DOMAIN Certs
                         /\ pc[t] \in Using => GetterAt(t) \in Getter

Init ==
    /\ monitor = Free
    /\ pc = [t \in Thread |-> "waiting"]
    /\ call \in [Thread -> Call]
    /\ cells = [c \in Cell |-> "null"]
    /\ filling = {}
    /\ static_out_buffer = <<>>
    /\ buf = "null"
    /\ at = [t \in Thread |-> [cert |-> 1, fingerprint |-> 1]]
    /\ hash = [t \in Thread |-> "null"]
    /\ fingerprints = [t \in Thread |-> {}]
    /\ secret = [t \in Thread |-> "null"]
    /\ key = [t \in Thread |-> "null"]
    /\ signature = [t \in Thread |-> <<>>]

Goto(t, to) == pc' = [pc EXCEPT ![t] = to]

-----------------------------------------------------------------------------
(* Entering and leaving                                                    *)

EnterUnlocked(t) ==   \* faulty: native, but not synchronized
    /\ pc[t] = "waiting"
    /\ Goto(t, "prefix")
    /\ UNCHANGED <<monitor, call, static, local, signature>>

Enter(t) ==
    /\ pc[t] = "waiting"
    /\ monitor = Free
    /\ monitor' = t
    /\ Goto(t, "prefix")
    /\ UNCHANGED <<call, static, local, signature>>

Leave(t, s) ==
    /\ Goto(t, "done")
    /\ monitor' = Free
    /\ signature' = [signature EXCEPT ![t] = s]

-----------------------------------------------------------------------------
(* The getters: allocate and fill when the cell is NULL, return it         *)

Allocate(t) ==
    /\ pc[t] \in Using /\ t \notin filling
    /\ cells[CellAt(t)] = "null"
    /\ cells' = [cells EXCEPT ![CellAt(t)] = "raw"]
    /\ filling' = filling \cup {t}
    /\ UNCHANGED <<monitor, pc, call, static_out_buffer, buf, local, signature>>

Fill(t) ==
    /\ t \in filling
    /\ cells' = [cells EXCEPT ![CellAt(t)] = Content(GetterAt(t))]
    /\ filling' = filling \ {t}
    /\ UNCHANGED <<monitor, pc, call, static_out_buffer, buf, local, signature>>

Has(t, place) ==
    /\ pc[t] = place /\ t \notin filling
    /\ cells[CellAt(t)] # "null"

-----------------------------------------------------------------------------
(* checkAuthorized                                                         *)

Prefix(t) ==
    /\ Has(t, "prefix")
    /\ IF cells[CellAt(t)] = Package /\ Certs # <<>>
       THEN Goto(t, "digest") /\ UNCHANGED <<monitor, signature>>
       ELSE Leave(t, <<>>)
    /\ UNCHANGED <<call, static, local>>

(* SHA1() of the certificate, into the static buffer ...                   *)
Digest(t) ==
    /\ pc[t] = "digest"
    /\ buf' = Certs[at[t].cert]
    /\ Goto(t, "hex")
    /\ UNCHANGED <<monitor, call, cells, filling, static_out_buffer, local,
                   signature>>

(* ... which is read afterwards.                                           *)
Hex(t) ==
    /\ pc[t] = "hex"
    /\ hash' = [hash EXCEPT ![t] = buf]
    /\ fingerprints' = [fingerprints EXCEPT ![t] = {}]
    /\ at' = [at EXCEPT ![t].fingerprint = 1]
    /\ Goto(t, "fingerprint")
    /\ UNCHANGED <<monitor, call, static, secret, key, signature>>

Fingerprint(t) ==
    /\ Has(t, "fingerprint")
    /\ fingerprints' = [fingerprints EXCEPT ![t] = @ \cup {cells[CellAt(t)]}]
    /\ IF at[t].fingerprint < Len(Native[call[t].entry].fingerprints)
       THEN at' = [at EXCEPT ![t].fingerprint = @ + 1] /\ UNCHANGED pc
       ELSE Goto(t, "compare") /\ UNCHANGED at
    /\ UNCHANGED <<monitor, call, static, hash, secret, key, signature>>

CompareAgain(t) ==   \* faulty: goes back to the same certificate
    /\ pc[t] = "compare"
    /\ IF hash[t] \in fingerprints[t]
       THEN /\ Goto(t, IF at[t].cert < Len(Certs) THEN "digest" ELSE "secret")
            /\ UNCHANGED <<monitor, signature>>
       ELSE Leave(t, <<>>)
    /\ UNCHANGED <<call, static, local>>

(* Every certificate must be known.                                        *)
Compare(t) ==
    /\ pc[t] = "compare"
    /\ \/ /\ hash[t] \notin fingerprints[t]
          /\ Leave(t, <<>>)
          /\ UNCHANGED at
       \/ /\ hash[t] \in fingerprints[t]
          /\ IF at[t].cert < Len(Certs)
             THEN at' = [at EXCEPT ![t].cert = @ + 1] /\ Goto(t, "digest")
             ELSE Goto(t, "secret") /\ UNCHANGED at
          /\ UNCHANGED <<monitor, signature>>
    /\ UNCHANGED <<call, static, hash, fingerprints, secret, key>>

-----------------------------------------------------------------------------
(* signUrl                                                                 *)

Secret(t) ==
    /\ Has(t, "secret")
    /\ secret' = [secret EXCEPT ![t] = cells[CellAt(t)]]
    /\ Goto(t, "key")
    /\ UNCHANGED <<monitor, call, static, at, hash, fingerprints, key, signature>>

Key(t) ==
    /\ Has(t, "key")
    /\ key' = [key EXCEPT ![t] = cells[CellAt(t)]]
    /\ Goto(t, "hmac")
    /\ UNCHANGED <<monitor, call, static, at, hash, fingerprints, secret, signature>>

(* HMAC() leaves the digest in its static buffer ...                       *)
Hmac(t) ==
    /\ pc[t] = "hmac"
    /\ static_out_buffer' = HMAC(call[t], secret[t], key[t])
    /\ Goto(t, "sign")
    /\ UNCHANGED <<monitor, call, cells, filling, buf, local, signature>>

(* ... and sign() reads it there.                                          *)
Sign(t) ==
    /\ pc[t] = "sign"
    /\ Leave(t, static_out_buffer)
    /\ UNCHANGED <<call, static, local>>

-----------------------------------------------------------------------------
Step(t) ==
    \/ Enter(t) \/ Allocate(t) \/ Fill(t) \/ Prefix(t) \/ Digest(t) \/ Hex(t)
    \/ Fingerprint(t) \/ Compare(t) \/ Secret(t) \/ Key(t) \/ Hmac(t) \/ Sign(t)

Done == (\A t \in Thread : pc[t] = "done") /\ UNCHANGED vars

Next == Done \/ \E t \in Thread : Step(t)

Spec == Init /\ [][Next]_vars

(* Threads that can run do run; every thread makes one call.               *)
FairSpec == Spec /\ \A t \in Thread : WF_vars(Step(t))

-----------------------------------------------------------------------------
(* Properties                                                              *)

(* What a call answers when it is the only one the process ever makes.     *)
Alone(c) ==
    LET n == Native[c.entry]
    IN  IF /\ Content(n.prefix) = Package
           /\ Certs # <<>>
           /\ \A i \in DOMAIN Certs :
                  Certs[i] \in {Content(g) : g \in FingerprintsOf(c.entry)}
        THEN HMAC(c, Content(n.secret), Content(n.key))
        ELSE <<>>

(* Whatever other calls were made before it or at the same time, with      *)
(* whatever other keys, a call answers as if it were alone.                *)
AsIfAlone == \A t \in Thread : pc[t] = "done" => signature[t] = Alone(call[t])

Elements(s) == {s[i] : i \in DOMAIN s}

(* Requests with the same parameters have the same signature, in whatever  *)
(* order the hash map hands them over.                                     *)
OrderIsIrrelevant ==
    \A t, u \in Thread :
        /\ pc[t] = "done" /\ pc[u] = "done"
        /\ call[t].entry = call[u].entry /\ call[t].request = call[u].request
        /\ Elements(call[t].params) = Elements(call[u].params)
        => signature[t] = signature[u]

(* Every request gets its answer: no refusal leaves the monitor taken.     *)
CallsReturn == \A t \in Thread : pc[t] = "waiting" ~> pc[t] = "done"
=============================================================================
