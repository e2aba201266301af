--------------------------- MODULE MCDisplayRevert ---------------------------
(* Two outputs, two rotations, and a UHD panel that boots in DCI-4K.       *)
EXTENDS DisplayRevert

MCTransforms == {"normal", "90"}
MCModes == {"dci", "uhd"}
MCBoot == [t |-> "normal", m |-> "dci"]
=============================================================================
