------------------------- MODULE MCResourceUploader -------------------------
(* What the scenes upload: a vertex buffer, the dither pattern of the        *)
(* volumetric light (4 by 4 bytes), panda.dds (150 by 150 with all levels)   *)
(* and the coloured levels of MipmapScene (256 by 256).                      *)
EXTENDS ResourceUploader

(* Made by the scene, or by a loader.                                        *)
MCMade(desc)   == CreateResource("DEFAULT", [NewResourceDesc(desc) EXCEPT !.initialStates = "COPY_DEST"])
MCLoaded(desc) == Transferred(desc, "COPY_DEST")

(* One entry for each level: rows without gaps.                              *)
MCLevels(side, mips) ==
    [i \in 1..mips |-> [subresource |-> i - 1, rowPitch |-> 4 * Max({1, side \div 2^(i - 1)})]]

MCEntry ==
    [vertices |-> [resource |-> MCMade(Buffer(24 * 32)),
                   data |-> <<[subresource |-> 0, rowPitch |-> 24 * 32]>>],
     pattern  |-> [resource |-> MCMade(Tex2D("R8_UINT", 4, 4, 1)),
                   data |-> <<[subresource |-> 0, rowPitch |-> 4]>>],
     panda    |-> [resource |-> MCLoaded(Tex2D("R8G8B8A8_UNORM", 150, 150, 8)),
                   data |-> MCLevels(150, 8)],
     levels   |-> [resource |-> MCMade(Tex2D("R8G8B8A8_UNORM", 256, 256, CalMipLevel(256, 256))),
                   data |-> MCLevels(256, CalMipLevel(256, 256))]]
=============================================================================
