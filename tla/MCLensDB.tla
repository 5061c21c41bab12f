------------------------------ MODULE MCLensDB ------------------------------
(* Two files, one of the user's part; lenses that are there and that are   *)
(* not, with the mount of the file, with a new one and without one.        *)
EXTENDS LensDB

Fisheye == [NewLens EXCEPT !.name = "fish", !.mount = "K", !.type = "fisheye", !.factor = 1,
              !.calib["crop"] = {[at |-> 10, value |-> "circle"]},
              !.calib["distortion"] = {[at |-> 10, value |-> [model |-> "poly3", terms |-> <<7>>]]}]
Fixed == [NewLens EXCEPT !.name = "Standard", !.mount = "Generic", !.type = "rectilinear", !.factor = 2]

MCInstalled == [mounts |-> {"Generic"}, cameras |-> {[name |-> "dc", mount |-> "Generic", factor |-> 2]},
                lenses |-> <<Fixed>>]
Holding(mounts, lenses) == [mounts |-> mounts, cameras |-> {}, lenses |-> lenses]
MCContents == {Holding({"K"}, <<Fisheye>>)}
MCVectors == {<<4, 3, 2, 1>>, <<4, 3, 2>>}
=============================================================================
