CONSTANT Programs <- MCPrograms
SPECIFICATION WholeSpec
INVARIANTS UserTypesHold ParametersFound ReturnsLinked StructuresHold GlobalsHold
PROPERTY MeaningKept
