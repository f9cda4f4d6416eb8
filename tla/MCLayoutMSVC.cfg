SPECIFICATION Spec
CONSTANT Types <- MCTypes
CONSTANT Size <- MCSize
CONSTANT alignment_requirement <- MCSize
CONSTANT max_alignment = 8
CONSTANT MaxFields = 4
CONSTANT Slots <- MCSlots
CONSTANT Offsets <- MCOffsets
INVARIANT FieldsAreAligned
