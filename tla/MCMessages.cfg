\* Exhaustive: there is no bound.
SPECIFICATION MessageSpec
INVARIANTS
    MessagesFitDeclaredType
    OneNamePerFact
    
