---------------------------- MODULE MCOfferMimes ----------------------------
(* Small instances of OfferMimes for TLC. *)
EXTENDS OfferMimes

FourTypes == {"utf8", "text", "image", "SAVE_TARGETS"}
FourBytes == [m \in FourTypes |-> CASE m = "utf8" -> 3 [] m = "image" -> 2 [] OTHER -> 1]

(* text/plain;charset=utf-8, text/plain, image/png and the fallback *)
FourRanks == [m \in FourTypes |-> CASE m = "utf8" -> 0 [] m = "text" -> 1
                                    [] m = "image" -> 8 [] OTHER -> 255]

NoImages == FourTypes \ {"image"}
SaveTargets == {"SAVE_TARGETS"}
=============================================================================
