SPECIFICATION Spec
CONSTANTS
    Documents <- MCDocuments
    GraphQlDocuments <- MCGraphQlDocuments
    ProtoSchemas <- MCProtoSchemas
    Texts <- MCTexts
    MaxReleases = 3
INVARIANTS ReportsAreTrue SafeStepsCompose DocumentsAreRead EveryDeclarationIsRead
