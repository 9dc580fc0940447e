CONSTANT Programs <- MCPrograms
SPECIFICATION Spec
INVARIANTS ClustersSound ClustersAreComponents NamesDistinct
