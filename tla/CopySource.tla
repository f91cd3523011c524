----------------------------- MODULE CopySource -----------------------------
(* The layout of an entry of ResourceUploader in its copy source: what       *)
(* entryBuffer and both entryTexture put where, and what the copies read.    *)
EXTENDS DX12Resource, SequencesExt

CONSTANT Entry  \* for each target its resource and the data to put there, a
                \* sequence with a subresource and a row pitch for each piece

(* The copy source of an entry: a buffer, and the regions in it that are   *)
(* written row by row and copied to a subresource each.                    *)
CopySource(source, regions) == [source |-> source, regions |-> regions]
Region(footprint, d) == [placed |-> footprint, rowPitch |-> d.rowPitch,
                         subresource |-> d.subresource]

(* entryBuffer: createForCopy with the data; all of it is copied.          *)
EntryBuffer(target, byteSize) == CopySource(CreateForCopy(target, TRUE, byteSize), << >>)

(* entryTexture for one subresource: the footprint of the first.           *)
EntryTexture(target, d) ==
    LET fp == Footprint(target, 0, 0)
    IN  CopySource(Update(CreateForCopy(target, FALSE, fp.totalSize), d.subresource, fp.totalSize),
                   <<[Region(fp, d) EXCEPT !.subresource = 0]>>)

(* entryTexture for many: one behind the other, each at a multiple of 512. *)
EntryTextures(target, ds) ==
    LET Padded(d)  == LET size == Footprint(target, d.subresource, 0).totalSize
                      IN  size + (512 - (size % 512))
        start[i \in DOMAIN ds \cup {0}] == IF i = 0 THEN 0 ELSE start[i - 1] + Padded(ds[i])
        size       == start[Len(ds)]
        regions    == [i \in DOMAIN ds |->
                         Region(Footprint(target, ds[i].subresource, start[i - 1]), ds[i])]
    IN  CopySource(Update(CreateForCopy(target, FALSE, size), 0, size), regions)

EntryOf(t) ==
    LET target == Entry[t].resource
        data   == Entry[t].data
    IN  CASE target.desc.Dimension = "BUFFER" -> EntryBuffer(target, data[1].rowPitch)
          [] Len(data) = 1                    -> EntryTexture(target, data[1])
          [] OTHER                            -> EntryTextures(target, data)

(* What a copy reads from its source is the data: every region begins at a *)
(* multiple of 512 and lies in the buffer with all that is written to it,  *)
(* no two overlap, and no row is written over the next one.                *)
Begin(region) == region.placed.Offset
End(region)   == Begin(region) + region.placed.RowPitch * (region.placed.rows - 1)
                     + region.rowPitch - 1

ReadsItsData(t) ==
    LET target  == Entry[t].resource
        source  == EntryOf(t).source
        regions == ToSet(EntryOf(t).regions)
    IN  /\ target.good /\ source.good
        /\ IF target.desc.Dimension = "BUFFER"
           THEN Copyable(source, target) /\ source.filled = target.desc.Width
           ELSE /\ source.filled > 0
                /\ {r.subresource : r \in regions} = 0..(target.desc.MipLevels - 1)
                /\ \A r \in regions :
                     /\ Begin(r) % 512 = 0
                     /\ End(r) < source.desc.Width
                     /\ r.rowPitch \in r.placed.rowBytes..r.placed.RowPitch
                     /\ \A o \in regions \ {r} : End(r) < Begin(o) \/ End(o) < Begin(r)

(* The targets whose copies read their data.                               *)
Intact == {t \in DOMAIN Entry : ReadsItsData(t)}
=============================================================================
