SPECIFICATION Spec
PROPERTIES ConstMeansTheProgram VariantsFitTheirMemory EmittedBlocksAreWellFormed PlacesAreComparedInMemory BytecodeMeansTheBody ItemsAreEmittedOnce OnlyCheckedCodeIsEmitted AsyncMeansTheBody AutoTraitsAreExact UnifySolvesTheEquations ProofsAreInstances SourceIsKept OperatorsGroupByLevel MacrosCopyTheirArguments ImportsReachTheirItems
CHECK_DEADLOCK FALSE
