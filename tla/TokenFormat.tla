----------------------------- MODULE TokenFormat ----------------------------
(***************************************************************************)
(* The token objects of s3store: encoded and written by one service, or    *)
(* written by hand, then parsed and decoded by another with its KMS mode.  *)
(* An empty string is an absent JSON field (omitempty).                    *)
(***************************************************************************)
EXTENDS Naturals, Sequences

CONSTANTS Raws,        \* token values: "", "text" and "binary" (not UTF-8)
          HandWritten  \* token objects not written by this package

VARIABLES pc, raw, wmode,   \* what was written, and how
          obj,         \* the stored object
          rmode, decoded

vars == <<pc, raw, wmode, obj, rmode, decoded>>

Kind == "oauth2_client_credentials"
Modes == {"passthrough", "kms", "other"}
Error == [error |-> TRUE]
Blank == {"", " "}

Empty == [enc |-> "", key |-> "", plain |-> "", kind |-> "",
          profile |-> "", id |-> "", secret |-> ""]

\* encoding/json replaces what is not UTF-8.
JSONString(s) == IF s = "binary" THEN "replaced" ELSE s

\* Base64 of nothing is nothing; any other text is not base64.
EncodeBase64(b) == CASE b = "" -> "" [] b = "text" -> "dGV4dA==" [] b = "binary" -> "/w=="
DecodeBase64(t) == CASE t = "dGV4dA==" -> "text" [] t = "/w==" -> "binary" [] OTHER -> "invalid"

ValidateDescriptor(o) ==
  /\ o.kind = Kind
  /\ o.profile \notin Blank /\ o.id \notin Blank /\ o.secret \notin Blank
  /\ o.id # o.secret

IsDescriptor(o) == o.kind # ""

EncodeToken(r, key, mode) ==
  CASE mode = "passthrough" -> [Empty EXCEPT !.plain = r]
    [] mode = "kms" -> [Empty EXCEPT !.enc = EncodeBase64(r), !.key = key]
    [] OTHER -> Error

EncodeDescriptor(o) == IF ValidateDescriptor(o) THEN o ELSE Error

MarshalTokenObject(o) == [o EXCEPT !.plain = JSONString(o.plain)]

ParseTokenObject(o) ==
  IF IsDescriptor(o)
  THEN IF o.plain # "" \/ o.enc # "" \/ ~ValidateDescriptor(o) THEN Error ELSE o
  ELSE IF (o.plain = "" /\ o.enc = "") \/ (o.enc # "" /\ o.key = "") THEN Error
  ELSE o

NoDecoded == [kind |-> "none"]

DecodeToken(o, mode) ==
  IF IsDescriptor(o) THEN [kind |-> "descriptor", profile |-> o.profile, id |-> o.id, secret |-> o.secret]
  ELSE CASE mode = "passthrough" /\ o.plain # "" -> [kind |-> "plain", value |-> o.plain]
         [] mode = "kms" /\ o.enc # "" /\ DecodeBase64(o.enc) # "invalid" ->
              [kind |-> "encrypted", value |-> DecodeBase64(o.enc), key |-> o.key]
         [] OTHER -> [kind |-> "error"]

-----------------------------------------------------------------------------
NotRaw == "none"

Init ==
  /\ pc = "write" /\ raw = NotRaw /\ wmode = "none" /\ obj = Empty
  /\ rmode \in Modes /\ decoded = NoDecoded

WriteToken ==
  /\ pc = "write"
  /\ \E r \in Raws, key \in {"", "k"}, mode \in Modes :
       /\ raw' = r /\ wmode' = IF mode = "kms" /\ key = "" THEN "keyless" ELSE mode
       /\ LET o == EncodeToken(r, key, mode)
          IN  IF o = Error THEN pc' = "refused" /\ obj' = Empty
              ELSE pc' = "stored" /\ obj' = MarshalTokenObject(o)
  /\ UNCHANGED <<rmode, decoded>>

WriteDescriptor ==
  /\ pc = "write"
  /\ \E o \in HandWritten :
       /\ [o EXCEPT !.enc = "", !.key = "", !.plain = ""] = o
       /\ IF EncodeDescriptor(o) = Error THEN pc' = "refused" /\ UNCHANGED <<obj, wmode>>
          ELSE pc' = "stored" /\ obj' = o /\ wmode' = "descriptor"
  /\ UNCHANGED <<raw, rmode, decoded>>

WriteByHand ==
  /\ pc = "write"
  /\ obj' \in HandWritten /\ wmode' = "hand" /\ pc' = "stored"
  /\ UNCHANGED <<raw, rmode, decoded>>

Read ==
  /\ pc = "stored"
  /\ LET o == ParseTokenObject(obj)
     IN  IF o = Error THEN pc' = "unreadable" /\ UNCHANGED decoded
         ELSE pc' = "read" /\ decoded' = DecodeToken(o, rmode)
  /\ UNCHANGED <<raw, wmode, obj, rmode>>

Next == WriteToken \/ WriteDescriptor \/ WriteByHand \/ Read

Spec == Init /\ [][Next]_vars

-----------------------------------------------------------------------------
\* "an unknown kind can never be silently downgraded to a static token": a
\* value is read only from an object without a kind, and a descriptor only
\* from one without a value, with two different references.
NoDowngrade ==
  pc = "read" =>
    /\ decoded.kind \in {"plain", "encrypted"} => obj.kind = ""
    /\ decoded.kind = "descriptor" => /\ obj.kind = Kind /\ obj.plain = "" /\ obj.enc = ""
                                      /\ decoded.id # decoded.secret

\* A reader gets what its KMS mode stands for: never a plaintext where it
\* expects a ciphertext, and no ciphertext without the key it was made with.
ModeHeeded ==
  /\ decoded.kind = "plain" => rmode = "passthrough" /\ decoded.value # ""
  /\ decoded.kind = "encrypted" => rmode = "kms" /\ decoded.key # ""

\* A token written with the reader's mode is read back as it was written, and
\* a descriptor in any mode.  The value must not be empty, a passthrough value
\* must be text, since JSON holds nothing else, and KMS needs its key.
ReadBack ==
  /\ /\ pc \in {"read", "unreadable"} /\ wmode = rmode /\ raw # ""
     /\ wmode = "passthrough" => raw = "text"
     => decoded.kind \in {"plain", "encrypted"} /\ decoded.value = raw
  /\ wmode = "descriptor" /\ pc # "stored" => decoded.kind = "descriptor"
=============================================================================
