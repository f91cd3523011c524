------------------------- MODULE RootSignatureInfo -------------------------
(***************************************************************************)
(* hinode::graphics::utility::RootSignatureInfo and ShaderResourceInfo     *)
(* (dx12/graphics/dx12/utility/Shader/{RootSignatureInfo,                  *)
(* ShaderResourceInfo}).                                                   *)
(*                                                                         *)
(* A shader names its resources and gives each a register.  A root         *)
(* signature says which register is found in which root parameter, and     *)
(* in a descriptor table at which descriptor.  The two classes join them:  *)
(* a name leads to a register, and the register to the place of its        *)
(* descriptor.  D3D12 finds the descriptor by rules of its own; they are   *)
(* at the end of the module.                                               *)
(*                                                                         *)
(* Root and table indices count from 0, as in the code.                    *)
(***************************************************************************)
EXTENDS Integers, Sequences, SequencesExt, TLC

(* D3D12_DESCRIPTOR_RANGE and D3D12_ROOT_PARAMETER.  A root view is a      *)
(* parameter of one range of one register.                                 *)
DescriptorRange(type, slot, space, count) ==
    [type |-> type, slot |-> slot, space |-> space, count |-> count]

Table(visibility, ranges) ==
    [kind |-> "DESCRIPTOR_TABLE", visibility |-> visibility, ranges |-> ranges]

View(visibility, type, slot, space) ==
    [kind |-> "VIEW", visibility |-> visibility,
     ranges |-> <<DescriptorRange(type, slot, space, 1)>>]

SumOfCounts(ranges) == FoldLeft(LAMBDA sum, range : sum + range.count, 0, ranges)

(* RootDescriptorTable::calDescriptorCount.                                *)
calDescriptorCount(param) == SumOfCounts(param.ranges)

(* RootSignatureInfo::Key.                                                 *)
Key(type, slot, space) == [type |-> type, slot |-> slot, space |-> space]

KeysOfRange(range) ==
    [n \in 1..range.count |-> Key(range.type, range.slot + n - 1, range.space)]

Keys(param) == FlattenSeq([i \in DOMAIN param.ranges |-> KeysOfRange(param.ranges[i])])
-----------------------------------------------------------------------------
(* Mutant of BindingInfos: the index counts the descriptors that follow.   *)
BindingInfosFromEnd(param, rootIndex) ==
    [n \in DOMAIN Keys(param) |->
       [type |-> param.kind, rootIndex |-> rootIndex, tableIndex |-> Len(Keys(param)) - n]]

(* The BindingInfo of each key of a parameter: tableIndex counts the       *)
(* descriptors of all ranges of the table, in their order.                 *)
BindingInfos(param, rootIndex) ==
    [n \in DOMAIN Keys(param) |->
       [type |-> param.kind, rootIndex |-> rootIndex, tableIndex |-> n - 1]]

(* mBindingHash after a parameter: insert leaves a key alone that is there *)
(* already.                                                                *)
Inserted(hash, param, rootIndex) ==
    LET keys == Keys(param)
        infos == BindingInfos(param, rootIndex)
    IN  FoldLeft(LAMBDA h, n : h @@ (keys[n] :> infos[n]), hash,
                 [n \in DOMAIN keys |-> n])

(* analysis: the parameters one after another.  The visibility of a        *)
(* parameter is not looked at, nor is the offset of a range.               *)
BindingHash(params) ==
    FoldLeft(LAMBDA hash, i : Inserted(hash, params[i], i - 1), << >>,
             [i \in DOMAIN params |-> i])

(* isExist(key); findBindingInfo(key) throws without it, else ...          *)
isExistKey(hash, key)      == key \in DOMAIN hash
findBindingInfo(hash, key) == hash[key]
-----------------------------------------------------------------------------
(* ShaderResourceInfo: what the reflection of a shader says of a resource, *)
(* a D3D12_SHADER_INPUT_BIND_DESC.                                         *)
Input(type, slot, space) == [type |-> type, slot |-> slot, space |-> space]

(* append: a name that another shader of the pipeline brought stays as it  *)
(* is.                                                                     *)
Appended(mBindLocations, inputs) ==
    [name \in DOMAIN mBindLocations \cup DOMAIN inputs |->
       IF name \in DOMAIN mBindLocations THEN mBindLocations[name] ELSE inputs[name]]

(* isExist(name); find(name) throws without it.                            *)
isExistName(mBindLocations, name) == name \in DOMAIN mBindLocations

(* Key::sIsSameType: the table from an input's type to a key's.            *)
ReadInputs == {"D3D_SIT_TEXTURE", "D3D_SIT_STRUCTURED", "D3D_SIT_BYTEADDRESS"}
WrittenInputs ==
    {"D3D_SIT_UAV_RWTYPED", "D3D_SIT_UAV_RWSTRUCTURED", "D3D_SIT_UAV_RWBYTEADDRESS",
     "D3D_SIT_UAV_APPEND_STRUCTURED", "D3D_SIT_UAV_CONSUME_STRUCTURED",
     "D3D_SIT_UAV_RWSTRUCTURED_WITH_COUNTER"}

KeyType ==
    [t \in {"D3D_SIT_CBUFFER", "D3D_SIT_TBUFFER"} |-> "eCBV"]
      @@ [t \in ReadInputs |-> "eSRV"]
      @@ [t \in WrittenInputs |-> "eUAV"]
      @@ ("D3D_SIT_SAMPLER" :> "eSAMPLER")

(* ShaderResourceInfo::sIsSame: the same for the ranges of a table.  The   *)
(* two differ in D3D_SIT_TBUFFER, which no shader here uses.               *)
RangeType == [t \in DOMAIN KeyType |-> IF t = "D3D_SIT_TBUFFER" THEN "eSRV" ELSE KeyType[t]]

KeyOfInput(input) == Key(KeyType[input.type], input.slot, input.space)
-----------------------------------------------------------------------------
(* D3D12's side.  A stage sees the parameters that are visible to it, and  *)
(* none if the root signature denies it root access.  A range that is      *)
(* appended starts where the one before it ends.                           *)
Sees(rootSignature, stage, param) ==
    /\ stage \notin rootSignature.denied
    /\ param.visibility \in {"ALL", stage}

RangeHolds(range, input) ==
    /\ range.type = RangeType[input.type]
    /\ range.space = input.space
    /\ input.slot \in range.slot..(range.slot + range.count - 1)

(* The places, as root index and index in the table, where the stage finds *)
(* a register.                                                             *)
Places(rootSignature, stage, input) ==
    UNION {LET param == rootSignature.params[i]
           IN  IF Sees(rootSignature, stage, param)
               THEN {<<i - 1,
                       SumOfCounts(SubSeq(param.ranges, 1, j - 1))
                         + input.slot - param.ranges[j].slot>> :
                       j \in {k \in DOMAIN param.ranges : RangeHolds(param.ranges[k], input)}}
               ELSE {} :
           i \in DOMAIN rootSignature.params}
=============================================================================
