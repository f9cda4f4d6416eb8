SPECIFICATION Spec
CONSTANT Types <- MCTypes
CONSTANT Size <- MCSize
CONSTANT alignment_requirement <- MCSize
CONSTANT max_alignment = 16
CONSTANT MaxFields = 4
CONSTANT Slots <- MCSlots
CONSTANT Offsets <- MCOffsets
INVARIANT TypeOK
INVARIANT FieldsAreAligned
INVARIANT FieldsDoNotOverlap
INVARIANT LayoutIsTightest
