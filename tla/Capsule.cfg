SPECIFICATION Spec
CONSTANTS
    Namespaces <- MCNamespaces
    CapsuleIds <- MCCapsuleIds
    TypeIds <- MCTypeIds
    FieldIds <- MCFieldIds
    AttributeIds <- MCAttributeIds
    ValueIds <- MCValueIds
    MaxCapsules = 2
    MaxFields = 2
    MaxAttributes = 2
    Verboten <- MCVerboten
    Twins <- MCTwins
    Versions <- MCVersions
    Samples <- MCSamples
    Readers = {1, 2, 3, 4}
    LenBits = 7
    MaxMessages = 2
INVARIANTS
    CompileSound
    SizePromiseKept
    FrameDetects
    VersionRoundTrip
    TextFaithful
CHECK_DEADLOCK FALSE
