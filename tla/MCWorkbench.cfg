CONSTANTS None = None
SPECIFICATION Spec
PROPERTIES ConversionsSound ProjectSound RuntimeSound
CHECK_DEADLOCK FALSE
