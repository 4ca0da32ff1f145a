--------------------------- MODULE HostAttributes ---------------------------
(***************************************************************************)
(* What the guest asks the host for one value at a time, and the buffer it *)
(* offers: one that grows to what the host says it needs, one that stays   *)
(* as it is, or an out parameter that holds every value.  A plan is the    *)
(* sequence of attributes a function of the SDK reads, and what it does    *)
(* when one is missing.                                                    *)
(***************************************************************************)
EXTENDS Integers, Sequences

CONSTANTS Small, Medium, Large,   \* DefaultSmallBufLen, DefaultMediumBufLen, DefaultLargeBufLen
          Longest                 \* bound: the length of a value

ASSUME BufferAssumption ==
  Small \in Nat /\ Medium \in Nat /\ Large \in Nat /\ Longest \in Nat \ {0}

Adaptive(n) == [kind |-> "buffer", cap |-> n, grows |-> TRUE]
Fixed(n) == [kind |-> "buffer", cap |-> n, grows |-> FALSE]
Scalar == [kind |-> "scalar", cap |-> Longest, grows |-> FALSE]
Flag == [Scalar EXCEPT !.kind = "flag"]
Category == [Scalar EXCEPT !.kind = "category"]
Probe == [kind |-> "probe", cap |-> 0, grows |-> FALSE]
Shared(n) == [kind |-> "shared", cap |-> n, grows |-> FALSE]
-----------------------------------------------------------------------------
\* The request line.
Method == Adaptive(Small)
URI == Adaptive(Medium)
Version == Scalar

\* The client's connection; an address is written to the 16 bytes it has.
ClientIPAddr == Scalar
ServerIPAddr == Scalar
H2Fingerprint == Adaptive(Small)
RequestID == Adaptive(Small)
OHFingerprint == Adaptive(Small)
DDOSDetected == Scalar
FastlyKeyIsValid == Scalar

\* Its TLS session.
TLSCipherOpenSSLName == Fixed(Small)
TLSProtocol == Fixed(Small)
TLSClientHello == Adaptive(Large)
TLSClientServername == Adaptive(Large)
TLSRawClientCertificate == Adaptive(Large)
TLSClientCertVerifyResult == Scalar
TLSJA3MD5 == Scalar
TLSJA4 == Adaptive(Small)

\* What is known of its address and of its user agent.
ResVPNProxyIsAnonymous == Scalar
ResVPNProxyConnection == <<Scalar, Scalar, Scalar, Scalar>>
ResVPNProxyNetwork == <<Scalar, Scalar, Scalar, Scalar, Scalar>>
VPNServiceName == Adaptive(Medium)
BotAnalyzed == Flag
BotDetected == Flag
BotName == Adaptive(Small)
BotCategoryName == Adaptive(Small)
BotCategory == Category
BotVerified == Scalar
InspectVerdict == Adaptive(Medium)

\* The server's address.
AddrDestIP == Scalar
AddrDestPort == Scalar

\* Stores and lookups.
ConfigStoreHandle == Scalar
ConfigStoreValue == Adaptive(Small)
ConfigStoreHas == Probe
DictionaryHandle == Scalar
DictionaryValue == Shared(Large)
DictionaryHas == Probe
SecretStoreHandle == Scalar
SecretHandle == Scalar
SecretPlaintext == Adaptive(Medium)
GeoData == Adaptive(Medium)
DeviceData == Adaptive(Medium)
ACLHandle == Scalar
ACLBody == Scalar
ShieldInfo == Adaptive(Medium)
ShieldBackend == Adaptive(Medium)
VCPUMilliseconds == Scalar
HeapMiB == Scalar

\* A response, of a backend or from the cache.
StatusCode == Scalar
ResponseHeaderValue == Adaptive(Large)

\* The entry a handle of the HTTP cache has found.
FoundResponse == Scalar
FoundMaxAge == Scalar
FoundVaryRule == Adaptive(Small)
FoundAge == Scalar
FoundStaleWhileRevalidate == Scalar
FoundSurrogateKeys == Adaptive(Medium)
FoundLength == Scalar
FoundSensitiveData == Scalar
FoundStaleIfError == Scalar
FoundHits == Scalar

\* The object a handle of the core cache has found.
CoreMaxAge == Scalar
CoreLength == Scalar
CoreAge == Scalar
CoreStaleWhileRevalidate == Scalar
CoreHits == Scalar
CoreBody == Scalar
CoreUserMetadata == Adaptive(Medium)
-----------------------------------------------------------------------------
(***************************************************************************)
(* Plans.                                                                  *)
(***************************************************************************)
On(policy, attrs) == [i \in DOMAIN attrs |-> [attr |-> attrs[i], on |-> policy]]

Required(attrs) == On("required", attrs)         \* any error is returned
Optional(attrs) == On("optional", attrs)         \* ignoreNoneError
NoneStops(attrs) == On("none_stops", attrs)      \* no value: nothing else is asked
FalseStops(attrs) == On("false_stops", attrs)    \* the value false: nothing else is asked
BestEffort(attrs) == On("best_effort", attrs)    \* the first error is returned with what there is

newClientRequest == Required(<<Method, URI, Version, ClientIPAddr, ServerIPAddr>>)

\* The end of newClientRequest, for a client that came with https.
TLSInfo ==
  Required(<<TLSProtocol, TLSClientHello, TLSClientServername, TLSCipherOpenSSLName, TLSJA3MD5, TLSJA4>>)

FastlyMeta ==
  Required(<<RequestID>>) \o Optional(<<H2Fingerprint, OHFingerprint>>)
    \o Required(<<DDOSDetected, FastlyKeyIsValid>>)

TLSClientCertificateInfo ==
  NoneStops(<<TLSRawClientCertificate>>) \o Required(<<TLSClientCertVerifyResult>>)

ResVPNProxyData ==
  NoneStops(<<ResVPNProxyIsAnonymous>>)
    \o Required(ResVPNProxyConnection \o ResVPNProxyNetwork \o <<VPNServiceName>>)

BotDetection ==
  FalseStops(<<BotAnalyzed, BotDetected>>)
    \o BestEffort(<<BotName, BotCategoryName, BotCategory, BotVerified>>)

Inspect == Required(<<InspectVerdict>>)
RemoteAddr == Required(<<AddrDestIP, AddrDestPort>>)
ConfigStoreGet == Required(<<ConfigStoreHandle, ConfigStoreValue>>)
ConfigStoreHasKey == Required(<<ConfigStoreHandle, ConfigStoreHas>>)
DictionaryGet == Required(<<DictionaryHandle, DictionaryValue>>)
DictionaryHasKey == Required(<<DictionaryHandle, DictionaryHas>>)
Plaintext == Required(<<SecretStoreHandle, SecretHandle, SecretPlaintext>>)
GeoLookup == Optional(<<GeoData>>)
DeviceLookup == Required(<<DeviceData>>)
ACLLookup == Required(<<ACLHandle, ACLBody>>)
Shield == Required(<<ShieldInfo, ShieldBackend>>)
Compute == Required(<<VCPUMilliseconds, HeapMiB>>)
CandidateHeader == Required(<<ResponseHeaderValue>>)

loadFromHandlePlan ==
  Required(<<FoundMaxAge, FoundVaryRule, FoundAge, FoundStaleWhileRevalidate, FoundSurrogateKeys>>)
    \o Optional(<<FoundLength>>) \o Required(<<FoundSensitiveData, FoundStaleIfError>>)

\* There may be no response, and the hits are asked for if it was a hit.
httpCacheGetFoundResponse(wasHit) ==
  NoneStops(<<FoundResponse>>) \o (IF wasHit THEN Required(<<FoundHits>>) ELSE <<>>)
    \o loadFromHandlePlan \o Required(<<StatusCode>>)

newFound == Optional(<<CoreMaxAge, CoreLength, CoreAge, CoreStaleWhileRevalidate, CoreHits, CoreBody>>)

UserMetadata == Optional(<<CoreUserMetadata>>)

Plans ==
  {newClientRequest, TLSInfo, FastlyMeta, TLSClientCertificateInfo, ResVPNProxyData,
   BotDetection, Inspect, RemoteAddr, ConfigStoreGet, ConfigStoreHasKey, DictionaryGet,
   DictionaryHasKey, Plaintext, GeoLookup, DeviceLookup, ACLLookup, Shield, Compute,
   CandidateHeader, newFound, UserMetadata}
    \cup {httpCacheGetFoundResponse(wasHit) : wasHit \in BOOLEAN}
=============================================================================
