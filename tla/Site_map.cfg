SPECIFICATION Spec
INVARIANTS
    LinksLead
    OpenUnderPointer
PROPERTIES
    ReturnsWhereSent
    RedirectsSettle
