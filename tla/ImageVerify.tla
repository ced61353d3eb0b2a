---------------------------- MODULE ImageVerify ----------------------------
(***************************************************************************)
(* xboot_verify_next_image, as boot_uboot calls it: for u-boot, and on      *)
(* Q645 and SP7350 for the FIP after it.  There are three ways:             *)
(*   q628    the boot ROM's function, with the caches on;                   *)
(*   q645    functions of the ROM: hash, signature, then a session key and  *)
(*           the FIP decrypted where it lies;                               *)
(*   sp7350  the security engine, which works beside the core on the same   *)
(*           memory and says with a flag that a piece is done: RSA, hash,   *)
(*           AES.  The memory behind the image holds, in this order, the    *)
(*           signature, the key, and what the steps leave for each other.   *)
(* Cryptography is taken at its word: a hash is what was hashed, and a      *)
(* signature is good if that is what was signed.                            *)
(***************************************************************************)
EXTENDS Integers, Sequences

CONSTANTS
    Chips,          \* a subset of {"q628", "q645", "sp7350"}
    SignedBuilds,   \* built with CONFIG_COMPILE_WITH_SECURE, a subset of BOOLEAN
    Faults,         \* sets of faults an image may have
    Keys,           \* how a key in the fuses may read, of {"zero", "unread", "right"}
    Pieces          \* pieces the engine takes an image in (BATCH_SZ)

AllFaults == {"no info", "unsigned", "altered", "foreign key", "foreign device", "session", "cut"}

ImageVerifyAssumption ==
    /\ Chips \subseteq {"q628", "q645", "sp7350"} /\ SignedBuilds \subseteq BOOLEAN
    /\ Faults \subseteq SUBSET AllFaults
    /\ Keys \subseteq {"zero", "unread", "right"} /\ Pieces \in Nat \ {0}

VARIABLES
    chip, build, secure, Sb_Kpub, Dev_Kpriv,    \* fixed: chip, build and fuses
    faults, encrypted,                          \* fixed, by image
    img, pc,        \* the image looked at, and the place in its verification
    body,           \* by image and piece: "cipher", "clear", "spoilt"
    sign,           \* by image, its place for the signature: "sign", "zero", "padding"
    kept,           \* sig: a copy of the signature
    hash,           \* what has been hashed
    dst,            \* sp_expmod's result: "hash" if it is the hash that was signed
    good,           \* what memcmp said of the two
    n,              \* pieces given to the engine
    job, SECIF,     \* the engine: its work, and the flags of the units
    dcache,         \* MMU and data cache are on
    ret             \* by image, the verdict: "none", "ok", "fail"

fixed == <<chip, build, secure, Sb_Kpub, Dev_Kpriv, faults, encrypted>>
memory == <<body, sign, kept, hash, dst, good>>
engine == <<n, job, SECIF>>
vars == <<fixed, img, pc, memory, engine, dcache, ret>>

Images == {"uboot", "fip"}
Shipped(k) == IF encrypted[k] THEN "cipher" ELSE "clear"

Init ==
    /\ chip \in Chips /\ build \in SignedBuilds /\ secure \in BOOLEAN
    /\ Sb_Kpub \in Keys /\ Dev_Kpriv \in Keys
    /\ faults \in [Images -> Faults]
    /\ encrypted \in [Images -> BOOLEAN]
    \* what the build tools make: of Q645 only the FIP, of SP7350 both or none
    /\ chip # "sp7350" => ~encrypted["uboot"]
    /\ chip = "sp7350" => encrypted["fip"] = encrypted["uboot"]
    /\ chip = "q628" => ~encrypted["fip"]
    \* what the chip does not look at
    /\ chip = "q628" => build /\ Dev_Kpriv = "right" /\ faults["fip"] = {}
    /\ chip = "sp7350" => build /\ secure /\ Sb_Kpub = "right" /\ Dev_Kpriv = "right"
    /\ chip = "q645" /\ faults["uboot"] # {} => faults["fip"] = {}
    /\ img = "uboot" /\ pc = "verify"
    /\ body = [k \in Images |-> [p \in 1 .. Pieces |-> Shipped(k)]]
    /\ sign = [k \in Images |-> "sign"]
    /\ kept = "none" /\ hash = <<>> /\ dst = "junk" /\ good = FALSE
    /\ n = 0 /\ job = "none" /\ SECIF = {}
    /\ dcache = FALSE
    /\ ret = [k \in Images |-> "none"]

Has(fault) == fault \in faults[img]
At(c, here) == chip = c /\ pc = here /\ UNCHANGED fixed

(* What boot_uboot does with the verdict: the next image, or the shell.     *)
Verdict(v) ==
    /\ ret' = [ret EXCEPT ![img] = v]
    /\ IF v = "ok" /\ img = "uboot" /\ chip # "q628" THEN img' = "fip" /\ pc' = "verify"
                                                      ELSE pc' = "over" /\ UNCHANGED img

-----------------------------------------------------------------------------
(* q628_verify_uboot_signature; a B without an A does without the caches.   *)

Q628 ==
    /\ At("q628", "verify")
    /\ IF secure /\ ~Has("no info") THEN dcache' \in BOOLEAN /\ pc' = "rom" /\ UNCHANGED <<ret, img>>
                                    ELSE Verdict(IF secure THEN "fail" ELSE "ok") /\ UNCHANGED dcache
    /\ UNCHANGED <<memory, engine>>

(* A fuse that does not read leaves its byte of the key as it was.          *)
Q628Rom ==
    /\ At("q628", "rom")
    /\ Verdict(IF Sb_Kpub = "right" /\ ~Has("altered") /\ ~Has("foreign key") THEN "ok" ELSE "fail")
    /\ dcache' = FALSE
    /\ UNCHANGED <<memory, engine>>

-----------------------------------------------------------------------------
(* q645_image_verify_decrypt                                                *)

Q645 ==
    /\ At("q645", "verify")
    /\ CASE ~build -> Verdict("ok") /\ UNCHANGED dcache
         [] build /\ (~secure \/ Has("no info") \/ Has("unsigned")) -> Verdict("fail") /\ UNCHANGED dcache
         [] OTHER -> dcache' = TRUE /\ pc' = "key" /\ UNCHANGED <<ret, img>>
    /\ UNCHANGED <<memory, engine>>

(* sb_out                                                                   *)
Out(v) == Verdict(v) /\ dcache' = FALSE

(* The signature is taken out of the image, as it was when that was signed. *)
SignatureLeft == sign
SignatureTakenOut == [sign EXCEPT ![img] = "zero"]

LoadKey ==
    /\ At("q645", "key")
    /\ IF Sb_Kpub = "right" /\ ~Has("foreign key")
         THEN kept' = sign[img] /\ sign' = SignatureTakenOut /\ pc' = "hash" /\ UNCHANGED <<dcache, ret, img>>
         ELSE Out("fail") /\ UNCHANGED <<kept, sign>>
    /\ UNCHANGED <<body, hash, dst, good, engine>>

Hash ==
    /\ At("q645", "hash") /\ pc' = "signature"
    /\ hash' = Append(body[img], sign[img])
    /\ UNCHANGED <<img, body, sign, kept, dst, good, engine, dcache, ret>>

(* What was signed: the image as it was sent, on Q645 with its sb_info.     *)
Signed ==
    /\ ~Has("altered")
    /\ hash = [p \in 1 .. Pieces |-> Shipped(img)] \o (IF chip = "q645" THEN <<"zero">> ELSE <<>>)

Verify ==
    /\ At("q645", "signature")
    /\ CASE ~(kept = "sign" /\ Signed) -> Out("fail")
         [] kept = "sign" /\ Signed /\ (img = "uboot" \/ ~encrypted[img]) -> Out("ok")
         [] OTHER -> pc' = "session" /\ UNCHANGED <<dcache, ret, img>>
    /\ UNCHANGED <<memory, engine>>

(* The session key, with this device's key.                                 *)
Session ==
    /\ At("q645", "session")
    /\ IF Dev_Kpriv = "right" /\ ~Has("foreign device") /\ ~Has("session")
         THEN pc' = "decrypt" /\ UNCHANGED <<dcache, ret, img>>
         ELSE Out("fail")
    /\ UNCHANGED <<memory, engine>>

Decrypted(piece) == IF piece = "cipher" THEN "clear" ELSE "spoilt"

Decrypt ==
    /\ At("q645", "decrypt")
    /\ body' = [body EXCEPT ![img] = [p \in 1 .. Pieces |-> IF Has("cut") THEN "spoilt" ELSE Decrypted(@[p])]]
    /\ Out(IF Has("cut") THEN "fail" ELSE "ok")
    /\ UNCHANGED <<sign, kept, hash, dst, good, engine>>

-----------------------------------------------------------------------------
(* q654_image_verify_decrypt                                                *)

(* A unit gets a piece; done with it, it has read or written memory, and    *)
(* its flag says so.                                                        *)
Give(unit) == job' = unit

EngineDone ==
    /\ job # "none" /\ job' = "none" /\ SECIF' = SECIF \cup {job}
    /\ dst' = IF job # "RSA" THEN dst ELSE IF sign[img] = "sign" THEN "hash" ELSE "junk"
    /\ hash' = IF job = "HASH" THEN Append(hash, body[img][n]) ELSE hash
    /\ body' = IF job = "AES" /\ n > 0 THEN [body EXCEPT ![img][n] = Decrypted(@)] ELSE body
    /\ UNCHANGED <<fixed, img, pc, sign, kept, good, n, dcache, ret>>

FlagCleared(unit) == SECIF \ {unit}

(* The core waits for the flag and clears it.                               *)
Wait(unit, here, there) ==
    /\ At("sp7350", here) /\ unit \in SECIF
    /\ SECIF' = FlagCleared(unit) /\ pc' = there
    /\ UNCHANGED <<img, memory, n, job, dcache, ret>>

Q654 ==
    /\ At("sp7350", "verify") /\ pc' = "rsa"
    /\ dst' = "junk" /\ Give("RSA")
    /\ UNCHANGED <<img, body, sign, kept, hash, good, n, SECIF, dcache, ret>>

(* sp_hash: the padding of the last block goes over the signature.          *)
Pad ==
    /\ At("sp7350", "pad") /\ pc' = "hash"
    /\ sign' = [sign EXCEPT ![img] = "padding"] /\ hash' = <<>> /\ n' = 0
    /\ UNCHANGED <<img, body, kept, dst, good, job, SECIF, dcache, ret>>

HashPiece ==
    /\ At("sp7350", "hash") /\ n < Pieces
    /\ n' = n + 1 /\ Give("HASH") /\ pc' = "hashing"
    /\ UNCHANGED <<img, memory, SECIF, dcache, ret>>

(* memcmp; builds with CONFIG_ENCRYPTION then make the key and decrypt,     *)
(* whatever memcmp said.                                                    *)
Compare ==
    /\ At("sp7350", "hash") /\ n = Pieces
    /\ good' = (dst = "hash" /\ Signed)
    /\ n' = 0
    /\ (IF encrypted[img] THEN Give("AES") /\ pc' = "decrypting" ELSE pc' = "result" /\ UNCHANGED job)
    /\ UNCHANGED <<img, body, sign, kept, hash, dst, SECIF, dcache, ret>>

AesPiece ==
    /\ At("sp7350", "decrypt") /\ n < Pieces
    /\ n' = n + 1 /\ Give("AES") /\ pc' = "decrypting"
    /\ UNCHANGED <<img, memory, SECIF, dcache, ret>>

Result ==
    /\ \/ At("sp7350", "result")
       \/ At("sp7350", "decrypt") /\ n = Pieces
    /\ Verdict(IF good THEN "ok" ELSE "fail")
    /\ UNCHANGED <<memory, engine, dcache>>

-----------------------------------------------------------------------------
Core ==
    \/ Q628 \/ Q628Rom
    \/ Q645 \/ LoadKey \/ Hash \/ Verify \/ Session \/ Decrypt
    \/ Q654 \/ Wait("RSA", "rsa", "pad") \/ Pad \/ HashPiece \/ Wait("HASH", "hashing", "hash")
    \/ Compare \/ Wait("AES", "decrypting", "decrypt") \/ AesPiece \/ Result

Next == Core \/ EngineDone

(* The engine is assumed to finish what it is given.                        *)
Spec == Init /\ [][Next]_vars /\ WF_vars(Core) /\ WF_vars(EngineDone)

-----------------------------------------------------------------------------
(* Properties                                                               *)

TypeOK ==
    /\ img \in Images /\ n \in 0 .. Pieces /\ dcache \in BOOLEAN /\ good \in BOOLEAN
    /\ body \in [Images -> [1 .. Pieces -> {"cipher", "clear", "spoilt"}]]
    /\ sign \in [Images -> {"sign", "zero", "padding"}]
    /\ hash \in Seq({"cipher", "clear", "spoilt", "sign", "zero", "padding"})
    /\ dst \in {"junk", "hash"} /\ SECIF \subseteq {"RSA", "HASH", "AES"}
    /\ job \in SECIF \cup {"none", "RSA", "HASH", "AES"}
    /\ ret \in [Images -> {"none", "ok", "fail"}]

(* What each chip is to accept.                                             *)
Free(k, flaws) == faults[k] \cap flaws = {}
Accepted(k) ==
    CASE chip = "q628" -> secure => Sb_Kpub = "right" /\ Free(k, {"no info", "altered", "foreign key"})
      [] chip = "q645" ->
            build =>
                /\ secure /\ Sb_Kpub = "right" /\ Free(k, {"no info", "unsigned", "altered", "foreign key"})
                /\ k = "fip" /\ encrypted[k] =>
                       Dev_Kpriv = "right" /\ Free(k, {"foreign device", "session", "cut"})
      [] chip = "sp7350" -> Free(k, {"altered"})

(* The verdict is that about the image as it was sent, though signature,    *)
(* padding, results and the decrypted image share its memory and the engine *)
(* works beside the core; an image accepted is in clear; and boot_uboot     *)
(* goes on without caches and with nothing left at work.                    *)
VerdictRight ==
    /\ \A k \in Images :
           ret[k] # "none" =>
               /\ (ret[k] = "ok") = Accepted(k)
               /\ ret[k] = "ok" /\ build => \A p \in 1 .. Pieces : body[k][p] = "clear"
    /\ pc \in {"verify", "over"} => ~dcache /\ job = "none"

Settled == pc = "over"

Settles == <>Settled
=============================================================================
