----------------------------- MODULE BootBudget -----------------------------
(***************************************************************************)
(* The published budget (src/crates/boot-budget/src/budget.rs and          *)
(* measurements.rs): what each scheme and each part is said to need and to  *)
(* have, in bytes, and whether the one fits the other.                     *)
(***************************************************************************)
EXTENDS Integers

Provenance == {"Specified", "Measured", "Estimated"}

\* What the table says of a scheme.  hashes is 0 where it has None.
Scheme(name, public_key, signature, code, ram, provenance, hashes) ==
    [name |-> name, public_key |-> public_key, signature |-> signature,
     code |-> code, ram |-> ram, ram_provenance |-> provenance, verify_hashes |-> hashes]

per_image_overhead(s) == s.signature

ClassicalSchemes ==
    {Scheme("ECDSA P-256", 33, 64, 25408, 1500, "Estimated", 0),
     Scheme("Ed25519", 32, 64, 41592, 1200, "Estimated", 0)}

LmsSchemes ==
    {Scheme("LMS w8/h5",  56, 1292, 5464, 1152, "Measured", 4877),
     Scheme("LMS w8/h10", 56, 1452, 5464, 1152, "Measured", 4887),
     Scheme("LMS w4/h10", 56, 2508, 5464, 1152, "Measured", 1070)}

LatticeSchemes ==
    {Scheme("ML-DSA-44", 1312, 2420, 13497, 34044, "Measured", 0),
     Scheme("ML-DSA-65", 1952, 3309, 13705, 16000, "Estimated", 0),
     Scheme("ML-DSA-87", 2592, 4627, 13657, 20000, "Estimated", 0),
     Scheme("FN-DSA-512", 897, 666, 11824, 3708, "Measured", 0)}

StatelessHashSchemes ==
    {Scheme("SLH-DSA-128s", 32,  7856, 15352, 2000, "Estimated", 0),
     Scheme("SLH-DSA-128f", 32, 17088,  8000, 2000, "Estimated", 0)}

SCHEMES == ClassicalSchemes \cup LmsSchemes \cup LatticeSchemes \cup StatelessHashSchemes

scheme(name) == CHOOSE s \in SCHEMES : s.name = name

ASSUME ProvenanceAssumption == \A s \in SCHEMES : s.ram_provenance \in Provenance

Part(name, otp, flash, ram) == [name |-> name, otp |-> otp, flash |-> flash, ram |-> ram]

PARTS ==
    {Part("tight boot ROM",   32,  16 * 1024,  8 * 1024),
     Part("Cortex-M4 class",  64,  64 * 1024,  32 * 1024),
     Part("application core", 256, 512 * 1024, 256 * 1024)}

\* Sizes read off a linker map, and the bound stackgraph.py gave.
Measurement(target, total, sha_only, bound) ==
    [target |-> target, code_total |-> total, code_sha_only |-> sha_only,
     stack_lower_bound |-> bound]

LMS_MEASUREMENTS ==
    {Measurement("thumbv6m",    5568, 3928, 1048),
     Measurement("thumbv7em",   5464, 3808, 720),
     Measurement("riscv32imc",  6652, 4384, 736),
     Measurement("riscv32imac", 6652, 4384, 736)}

measurement(target) == CHOOSE m \in LMS_MEASUREMENTS : m.target = target

REPRESENTATIVE == "thumbv7em"

code_marginal(m) == m.code_total - m.code_sha_only

\* The RAM a verification was measured to take: what the watermark said, and
\* the backend, which sits above the window.
OnTarget(backend, frames, bytes) ==
    [backend |-> backend, stack_frames |-> frames, backend_bytes |-> bytes]

ON_TARGET == {OnTarget("software", 1040, 112), OnTarget("hardware", 272, 2328)}

total_ram(t) == t.stack_frames + t.backend_bytes

-----------------------------------------------------------------------------
\* A digest of the public key, in fuses.
ROOT_DIGEST_OTP == 32

\* Scheme::fits: the first budget that is exceeded, in this order.
Fits(s, part) ==
    IF ROOT_DIGEST_OTP > part.otp THEN "OtpExceeded"
    ELSE IF s.code + s.public_key > part.flash THEN "FlashExceeded"
    ELSE IF s.ram > part.ram THEN "RamExceeded"
    ELSE "Fits"
=============================================================================
